---- MODULE Spec2Model ----
(***************************************************************************)
(* A model of generate_epub.py: the page loop of main(), the per-page      *)
(* composer generate_html_page() and the text passes it applies to every   *)
(* sentence fragment.                                                      *)
(*                                                                         *)
(* Markup is modelled as a sequence of tokens (whole tags, whitespace,     *)
(* text runs); every regular expression of the source is translated into   *)
(* the token pattern it matches.                                           *)
(***************************************************************************)
EXTENDS Integers, Sequences, FiniteSets, TLC

VARIABLES
    \* ---- main(): the page loop ----
    toc,            \* data['Toc'] in insertion order: a sequence of entries
    pages,          \* the keys of data['Pages']
    sorted_toc,     \* main's sorted_toc
    loop_i,         \* position of the for loop in sorted_toc
    page_number,    \* main's page_number counter
    html_content,   \* the document generated for the current entry, not yet written
    written,        \* the writes to OPS/xhtml, in the order they happened
    xhtml_dir,      \* the files of OPS/xhtml: a set of files, one per name
    mpc,            \* control point of main
    input,          \* what main finds on disk: "ok", "no_dir", "no_js"
    raised,         \* the exception that ended main, NoError when none did
    metadata_created,   \* the metadata documents have been written
    epub_created,   \* create_epub_zip has produced the archive
    \* ---- one text pass called on its own ----
    arg,            \* the arguments of the call
    res,            \* what the call returned
    res2,           \* what a second call on the returned markup returned
    fpc,            \* "idle", "call", "called", "recalled"
    \* ---- generate_html_page() ----
    pg_id,              \* the parameter page_id
    pg_number,          \* the parameter page_number: NoPageNum for None
    sentences,          \* the sentence_text of page_data['sentences'], in order
    idx,                \* position of the loop over the sentences
    element_counter,    \* the running counter of the ids of the page
    html_parts,         \* the lines of the document built so far
    custom_css_exists,  \* CUSTOM_CSS_FILE.exists()
    cover_source_name,  \* COVER_SOURCE_NAME
    passes_run,         \* the passes called for the page so far, in the order of the calls
    ppc                 \* "idle", "start", "sentences", "restructured", "done"

mainVars == <<toc, pages, sorted_toc, loop_i, page_number, html_content, written, xhtml_dir, mpc,
              input, raised, metadata_created, epub_created>>

fnVars == <<arg, res, res2, fpc>>

pageVars == <<pg_id, pg_number, sentences, idx, element_counter, html_parts,
              custom_css_exists, cover_source_name, passes_run, ppc>>

vars == <<mainVars, fnVars, pageVars>>

(***************************************************************************)
(* Bounds of the model.                                                    *)
(***************************************************************************)
MaxToc == 3

\* Elements per fragment handed to ensure_unique_ids on its own.
MaxElems == 2

\* Tokens per fragment handed to add_aria_hidden_to_br_hr on its own.
MaxAriaToks == 2

\* References per fragment handed to fix_image_paths on its own.
MaxRefs == 2

\* Words per fragment handed to clean_html_tags and extract_text_from_html.
MaxWords == 2

\* Largest value of element_counter handed to ensure_unique_ids on its own.
MaxStartCounter == 1

\* Sentences of a page handed to generate_html_page.
MaxSentences == 2

\* Sentences of a copyright page.
MaxParagraphs == 4

\* Sentences of a title page.
MaxTitleSentences == 3

\* The number of sentences of a copyright page with lists of the source.
MaxReidSentences == 3

(***************************************************************************)
(* Values.                                                                 *)
(***************************************************************************)
\* page_number=None of generate_html_page: the page carries no page number.
NoPageNum == 0

\* No exception has been raised.
NoError == "none"

\* raise FileNotFoundError(...) of main
InputError == "FileNotFoundError"

\* An exception raised while a page is generated or written.
PageError == "page error"

\* The states of the input main can find.
InputStates == {"ok", "no_dir", "no_js"}

\* COVER_SOURCE_NAME is None: no cover source file is known.
NoCover == ""

\* toc_entry.get('playOrder', 999)
DefaultPlayOrder == 999

NoPlayOrder == "absent"

NoDoc == [page_id |-> "", num |-> NoPageNum, section |-> "", file |-> ""]

PageIds == {"cvi", "tp", "crt", "c1"}

LinearValues == {"yes", "no"}

PlayOrderValues == {"1", NoPlayOrder}

TocEntries == [id : PageIds, playOrder : PlayOrderValues, linear : LinearValues]

(***************************************************************************)
(* main(): sorting the TOC.                                                *)
(***************************************************************************)
\* int(x[1].get('playOrder', 999))
PlayOrderKey(e) ==
    IF e.playOrder = NoPlayOrder THEN DefaultPlayOrder
    ELSE IF e.playOrder = "1" THEN 1 ELSE 2

\* One step of a stable insertion: e goes after every element whose key is
\* not greater than its own.
RECURSIVE InsertByKey(_, _)
InsertByKey(s, e) ==
    IF s = <<>> THEN <<e>>
    ELSE IF PlayOrderKey(e) < PlayOrderKey(s[Len(s)])
         THEN Append(InsertByKey(SubSeq(s, 1, Len(s) - 1), e), s[Len(s)])
         ELSE Append(s, e)

\* Mutants of the page loop.
SortedByPlayOrder_Unsorted(t) == t

CurrentPageNum_AlwaysNumbered(e, pn) == pn

RECURSIVE SortedByPlayOrder(_)
\* sorted(toc_entries.items(), key=...): Python's sort is stable.
SortedByPlayOrder(t) ==
    IF t = <<>> THEN <<>>
    ELSE InsertByKey(SortedByPlayOrder(SubSeq(t, 1, Len(t) - 1)), t[Len(t)])

(***************************************************************************)
(* main(): one iteration of the page loop.                                 *)
(***************************************************************************)
\* current_page_num = page_number if toc_entry.get('linear') == 'yes' else None
CurrentPageNum(e, pn) == IF e.linear = "yes" THEN pn ELSE NoPageNum

\* The id of the section element: page_{page_number if page_number else page_id}
SectionId(page_id, num) ==
    IF num # NoPageNum THEN "page_" \o ToString(num) ELSE "page_" \o page_id

\* f'page_{page_number}_{element_counter}'
PageElementId(n, c) == "page_" \o ToString(n) \o "_" \o ToString(c)

\* page_id == 'crt' or page_id.startswith('copyright')
CopyrightPageIds == {"crt", "copyright2"}

\* Mutant: every page is restructured as a copyright page.
IsCopyrightPage_Any(page_id) == TRUE

IsCopyrightPage(page_id) == page_id \in CopyrightPageIds

\* page_num = page_number if page_number else 3
DefaultCopyrightPageNum == 3

\* The id of the section element in the finished document: on a copyright
\* page the re-identification of convert_copyright_structure replaces it
\* by the first id of its own numbering.
DocumentSectionId(page_id, num) ==
    IF IsCopyrightPage(page_id)
    THEN PageElementId(IF num # NoPageNum THEN num ELSE DefaultCopyrightPageNum, 1)
    ELSE SectionId(page_id, num)

\* href.replace(BOOK_PREFIX, '').replace('.htm', '.xhtml') and the front
\* matter mapping; the href of an entry is <BOOK_PREFIX><page_id>.htm.
HtmlFilename(page_id) ==
    CASE page_id = "cvi" -> "cover.xhtml"
      [] page_id = "tp" -> "titlepage.xhtml"
      [] page_id = "crt" -> "copyright.xhtml"
      [] OTHER -> page_id \o ".xhtml"

\* A file of OPS/xhtml: its name, the function that wrote it, the page and
\* the section id of the document, and the links of the document.
PageFile(doc) ==
    [name |-> doc.file, by |-> "main", page_id |-> doc.page_id, section |-> doc.section,
     links |-> <<>>]

\* open(path, 'w') and write: the file of that name is replaced.
WriteFile(dir, file) == {f \in dir : f.name # file.name} \cup {file}

\* Lines 1070-1080: html_file of an entry in the navigation document.
NavHtmlFile(page_id) ==
    IF page_id \in {"cvi", "tp", "crt"} THEN HtmlFilename(page_id)
    ELSE IF page_id \in {"content", "toc"} THEN "content.xhtml"
    ELSE HtmlFilename(page_id)

\* toc_entry.get('playOrder', item_counter) in f'#page_{page_num}'
AnchorOf(e, item_counter) ==
    "page_" \o (IF e.playOrder = NoPlayOrder THEN ToString(item_counter) ELSE e.playOrder)

\* Lines 1062-1084: one link for each entry of the sorted TOC.
NavLinks(t) ==
    LET st == SortedByPlayOrder(t)
    IN [k \in 1..Len(st) |->
          [page_id |-> st[k].id, file |-> NavHtmlFile(st[k].id), anchor |-> AnchorOf(st[k], k)]]

\* page_id.startswith('c') and page_id[1:].isdigit()
ChapterIds == {"c1", "c2"}

\* Lines 1160-1188: one link for each chapter of the sorted TOC;
\* item_counter counts the chapters.
ContentLinks(t) ==
    LET st == SelectSeq(SortedByPlayOrder(t), LAMBDA e : e.id \in ChapterIds)
    IN [k \in 1..Len(st) |->
          [page_id |-> st[k].id, file |-> HtmlFilename(st[k].id), anchor |-> AnchorOf(st[k], k)]]

\* Lines 1091-1118: toc.xhtml
NavFile(t) ==
    [name |-> "toc.xhtml", by |-> "create_nav_xhtml", page_id |-> "", section |-> "page_toc",
     links |-> NavLinks(t)]

\* Lines 1195-1224: content.xhtml
ContentFile(t) ==
    [name |-> "content.xhtml", by |-> "create_content_xhtml", page_id |-> "",
     section |-> "page_4", links |-> ContentLinks(t)]

\* No text pass is being called on its own.
FnIdle == arg = "idle" /\ res = "idle" /\ res2 = "idle" /\ fpc = "idle"

\* generate_html_page is not being followed step by step.
PageIdle ==
    /\ pg_id = ""
    /\ pg_number = NoPageNum
    /\ sentences = <<>>
    /\ idx = 0
    /\ element_counter = 0
    /\ html_parts = <<>>
    /\ custom_css_exists = FALSE
    /\ cover_source_name = NoCover
    /\ passes_run = <<>>
    /\ ppc = "idle"

InitMain ==
    /\ FnIdle
    /\ PageIdle
    /\ toc \in UNION {[1..n -> TocEntries] : n \in 1..MaxToc}
    /\ \A a, b \in 1..Len(toc) : a # b => toc[a].id # toc[b].id
    /\ pages \in SUBSET PageIds
    /\ sorted_toc = <<>>
    /\ loop_i = 0
    /\ page_number = 0
    /\ html_content = NoDoc
    /\ written = <<>>
    /\ xhtml_dir = {}
    /\ mpc = "check"
    /\ input \in InputStates
    /\ raised = NoError
    /\ metadata_created = FALSE
    /\ epub_created = FALSE

(***************************************************************************)
(* Runs of main on books with a cover, a copyright page, contents pages    *)
(* and a chapter.                                                          *)
(***************************************************************************)
MaxPackageToc == 2

PackageIds == {"cvi", "cover", "crt", "content", "toc", "c1"}

PackageEntries == [id : PackageIds, playOrder : {"1", "2", NoPlayOrder}, linear : LinearValues]

InitPackage ==
    /\ FnIdle
    /\ PageIdle
    /\ toc \in UNION {[1..n -> PackageEntries] : n \in 1..MaxPackageToc}
    /\ \A a, b \in 1..Len(toc) : a # b => toc[a].id # toc[b].id
    /\ pages \in {PackageIds, PackageIds \ {"c1"}}
    /\ sorted_toc = <<>>
    /\ loop_i = 0
    /\ page_number = 0
    /\ html_content = NoDoc
    /\ written = <<>>
    /\ xhtml_dir = {}
    /\ mpc = "check"
    /\ input = "ok"
    /\ raised = NoError
    /\ metadata_created = FALSE
    /\ epub_created = FALSE

\* Mutant: main goes on whatever it finds.
InputFound_Always(state) == TRUE

\* input_dir_path.exists() and js_file.exists()
InputFound(state) == state = "ok"

\* Mutant: the exception is noted and main goes on from where it was.
PcAfterRaise_Resume(pc) == pc

\* An exception nothing catches ends main.
PcAfterRaise(pc) == "error"

\* Lines 1409-1420: the input directory and the content file are looked
\* for; FileNotFoundError is raised when one is missing.
CheckInput ==
    /\ mpc = "check"
    /\ IF InputFound(input)
       THEN mpc' = "sort" /\ UNCHANGED raised
       ELSE mpc' = PcAfterRaise(mpc) /\ raised' = InputError
    /\ UNCHANGED <<toc, pages, sorted_toc, loop_i, page_number, html_content, written, xhtml_dir,
                   input, metadata_created, epub_created, fnVars, pageVars>>

\* sorted_toc = sorted(...); page_number = 1
SortToc ==
    /\ mpc = "sort"
    /\ sorted_toc' = SortedByPlayOrder(toc)
    /\ page_number' = 1
    /\ loop_i' = 1
    /\ mpc' = "loop"
    /\ UNCHANGED <<toc, pages, html_content, written, xhtml_dir, input, raised, metadata_created,
                   epub_created, fnVars, pageVars>>

\* if page_id in pages: ... html_content = generate_html_page(...)
GeneratePage ==
    /\ mpc = "loop"
    /\ loop_i <= Len(sorted_toc)
    /\ sorted_toc[loop_i].id \in pages
    /\ LET e == sorted_toc[loop_i]
           num == CurrentPageNum(e, page_number)
       IN html_content' = [page_id |-> e.id, num |-> num,
                           section |-> DocumentSectionId(e.id, num),
                           file |-> HtmlFilename(e.id)]
    /\ mpc' = "write"
    /\ UNCHANGED <<toc, pages, sorted_toc, loop_i, page_number, written, xhtml_dir, input, raised, metadata_created,
                   epub_created, fnVars, pageVars>>

\* with open(html_path, 'w') ...: f.write(html_content); then
\* if current_page_num is not None: page_number += 1
WritePage ==
    /\ mpc = "write"
    /\ written' = Append(written, html_content)
    /\ xhtml_dir' = WriteFile(xhtml_dir, PageFile(html_content))
    /\ page_number' = IF html_content.num # NoPageNum THEN page_number + 1
                      ELSE page_number
    /\ html_content' = NoDoc
    /\ loop_i' = loop_i + 1
    /\ mpc' = "loop"
    /\ UNCHANGED <<toc, pages, sorted_toc, input, raised, metadata_created,
                   epub_created, fnVars, pageVars>>

\* The entry's page id is no key of Pages: the body of the loop is skipped.
SkipMissingPage ==
    /\ mpc = "loop"
    /\ loop_i <= Len(sorted_toc)
    /\ sorted_toc[loop_i].id \notin pages
    /\ loop_i' = loop_i + 1
    /\ UNCHANGED <<toc, pages, sorted_toc, page_number, html_content, written, xhtml_dir, mpc, input, raised, metadata_created,
                   epub_created, fnVars, pageVars>>

\* generate_html_page raises: nothing catches it, main ends.
GeneratePageRaises ==
    /\ mpc = "loop"
    /\ loop_i <= Len(sorted_toc)
    /\ sorted_toc[loop_i].id \in pages
    /\ raised' = PageError
    /\ mpc' = PcAfterRaise(mpc)
    /\ UNCHANGED <<toc, pages, sorted_toc, loop_i, page_number, html_content, written, xhtml_dir,
                   input, metadata_created, epub_created, fnVars, pageVars>>

\* open(html_path, 'w') or f.write raises: the document is not written,
\* main ends.
WritePageRaises ==
    /\ mpc = "write"
    /\ raised' = PageError
    /\ html_content' = NoDoc
    /\ mpc' = PcAfterRaise("loop")
    /\ UNCHANGED <<toc, pages, sorted_toc, loop_i, page_number, written, xhtml_dir,
                   input, metadata_created, epub_created, fnVars, pageVars>>

\* The for loop is exhausted.
FinishLoop ==
    /\ mpc = "loop"
    /\ loop_i > Len(sorted_toc)
    /\ mpc' = "metadata"
    /\ UNCHANGED <<toc, pages, sorted_toc, loop_i, page_number, html_content, written, xhtml_dir, input, raised, metadata_created,
                   epub_created, fnVars, pageVars>>

\* Lines 1498-1505: the metadata documents are created; create_nav_xhtml
\* writes toc.xhtml and create_content_xhtml writes content.xhtml.
CreateMetadata ==
    /\ mpc = "metadata"
    /\ xhtml_dir' = WriteFile(WriteFile(xhtml_dir, NavFile(toc)), ContentFile(toc))
    /\ metadata_created' = TRUE
    /\ mpc' = "copy"
    /\ UNCHANGED <<toc, pages, sorted_toc, loop_i, page_number, html_content, written,
                   input, raised, epub_created, fnVars, pageVars>>

\* Lines 1507-1520: audio, media, fonts and the stylesheet are copied.
CopyAssets ==
    /\ mpc = "copy"
    /\ mpc' = "package"
    /\ UNCHANGED <<toc, pages, sorted_toc, loop_i, page_number, html_content, written, xhtml_dir,
                   input, raised, metadata_created, epub_created, fnVars, pageVars>>

\* Line 1523: create_epub_zip()
CreateEpubZip ==
    /\ mpc = "package"
    /\ epub_created' = TRUE
    /\ mpc' = "done"
    /\ UNCHANGED <<toc, pages, sorted_toc, loop_i, page_number, html_content, written, xhtml_dir,
                   input, raised, metadata_created, fnVars, pageVars>>

Init == InitMain

Next ==
    \/ CheckInput
    \/ SortToc
    \/ GeneratePage
    \/ GeneratePageRaises
    \/ WritePage
    \/ WritePageRaises
    \/ SkipMissingPage
    \/ FinishLoop
    \/ CreateMetadata
    \/ CopyAssets
    \/ CreateEpubZip

Spec == Init /\ [][Next]_vars

SpecPackage == InitPackage /\ [][Next]_vars

(***************************************************************************)
(* Markup.  A fragment is a sequence of tokens: an opening tag, a closing  *)
(* tag, a void element (br, hr, img, meta, link), a run of spaces, a line  *)
(* break or a run of text.  A tag carries its attributes in source order,  *)
(* each a triple <<name, value, quotes>>, the value a sequence of atoms    *)
(* (for a path, its directory prefix and its file name), the quotes "dd"   *)
(* for name="value", "ss" for name='value' and "ds" for name="value'.      *)
(***************************************************************************)
Open(tag, attrs) == [k |-> "open", tag |-> tag, attrs |-> attrs, txt |-> <<>>, end |-> ">"]

Close(tag) == [k |-> "close", tag |-> tag, attrs |-> <<>>, txt |-> <<>>, end |-> ">"]

Void(tag, attrs, end) == [k |-> "void", tag |-> tag, attrs |-> attrs, txt |-> <<>>, end |-> end]

Text(atoms) == [k |-> "text", tag |-> "", attrs |-> <<>>, txt |-> atoms, end |-> ""]

WS == [k |-> "ws", tag |-> "", attrs |-> <<>>, txt |-> <<" ">>, end |-> ""]

NL == [k |-> "nl", tag |-> "", attrs |-> <<>>, txt |-> <<"\n">>, end |-> ""]

\* \s of the regular expressions
IsSpace(t) == t.k \in {"ws", "nl"}

\* <tag ...> or <tag .../>
IsTag(t) == t.k \in {"open", "void"}

Attr(name, value) == <<name, <<value>>, "dd">>

\* The value of the first attribute called name, <<>> when there is none.
AttrValue(attrs, name) ==
    IF \E i \in 1..Len(attrs) : attrs[i][1] = name
    THEN attrs[CHOOSE i \in 1..Len(attrs) :
                   /\ attrs[i][1] = name
                   /\ \A j \in 1..(i - 1) : attrs[j][1] # name][2]
    ELSE <<>>

HasAttr(attrs, name) == \E i \in 1..Len(attrs) : attrs[i][1] = name

RECURSIVE Flatten(_)
Flatten(ss) == IF ss = <<>> THEN <<>> ELSE Head(ss) \o Flatten(Tail(ss))

(***************************************************************************)
(* ensure_unique_ids                                                       *)
(***************************************************************************)
\* elements_needing_ids
ElementsNeedingIds ==
    {"p", "h1", "h2", "h3", "h4", "h5", "h6", "div", "section", "article",
     "nav", "header", "footer", "aside", "main", "ul", "ol", "li",
     "dl", "dt", "dd", "blockquote", "figure", "figcaption", "table",
     "thead", "tbody", "tfoot", "tr"}

\* tag_pattern: (?P<prefix>^|\s+)<(?P<tag>\w+)...>: a tag at the start of the
\* string or of a line, or directly after whitespace.
TagAtBoundary(toks, i) ==
    /\ IsTag(toks[i])
    /\ i = 1 \/ IsSpace(toks[i - 1])

\* Mutant: the existing id is not looked for.
IdPatternMatches_Never(attrs) == FALSE

\* id_match: \bid\s*=\s*["']([^"']+)["'] searched in attrs.  \b accepts any
\* attribute whose name ends in a word "id" (id, data-id); the value must not
\* be empty.
IdPatternMatches(attrs) ==
    \E i \in 1..Len(attrs) :
        /\ attrs[i][1] \in {"id", "data-id"}
        /\ attrs[i][2] # <<>>
        /\ attrs[i][2] # <<"">>

\* add_id_to_tag decides whether the match gets an id.
GetsNewId(toks, i) ==
    /\ TagAtBoundary(toks, i)
    /\ toks[i].tag \in ElementsNeedingIds
    /\ ~IdPatternMatches(toks[i].attrs)

\* new_attrs = f'{attrs} id="{unique_id}"'
WithNewId(t, id) == [t EXCEPT !.attrs = Append(t.attrs, Attr("id", id))]

\* tag_pattern.sub(add_id_to_tag, html_content), from token i on, with the
\* counter at c.
RECURSIVE SubAddIds(_, _, _, _)
SubAddIds(toks, i, n, c) ==
    IF i > Len(toks) THEN [html |-> <<>>, counter |-> c]
    ELSE IF GetsNewId(toks, i)
         THEN LET rest == SubAddIds(toks, i + 1, n, c + 1)
              IN [html |-> <<WithNewId(toks[i], PageElementId(n, c + 1))>> \o rest.html,
                  counter |-> rest.counter]
         ELSE LET rest == SubAddIds(toks, i + 1, n, c)
              IN [html |-> <<toks[i]>> \o rest.html, counter |-> rest.counter]

\* if not html_content or not html_content.strip(): return html_content, element_counter
IsBlank(toks) == \A i \in 1..Len(toks) : IsSpace(toks[i])

EnsureUniqueIds(html, n, c) ==
    IF IsBlank(html) THEN [html |-> html, counter |-> c]
    ELSE SubAddIds(html, 1, n, c)

(***************************************************************************)
(* fix_image_paths                                                         *)
(***************************************************************************)
\* f'{input_dir_name}/media/' for the input directory of the run.
InputMediaDir == "bk/media/"

\* f'../{IMAGES_DIR_NAME}/'
ImagesDir == "../images/"

\* re.sub(rf'{re.escape(input_dir_name)}/media/', '../images/', ...) on a
\* run of atoms: attribute values and text alike.
SubMediaDir(atoms) ==
    [j \in 1..Len(atoms) |-> IF atoms[j] = InputMediaDir THEN ImagesDir ELSE atoms[j]]

SubMediaDirTok(t) ==
    [t EXCEPT !.txt = SubMediaDir(t.txt),
              !.attrs = [a \in 1..Len(t.attrs) |->
                            <<t.attrs[a][1], SubMediaDir(t.attrs[a][2]), t.attrs[a][3]>>]]

\* re.sub(r'src=["\']images/', r'src="../images/', ...): the value of a src
\* attribute that starts with images/; the opening quote becomes a double one.
SubSrcImages(attr) ==
    IF attr[1] = "src" /\ attr[2] # <<>> /\ attr[2][1] = "images/"
    THEN <<"src", <<ImagesDir>> \o Tail(attr[2]),
           IF attr[3] = "ss" THEN "ds" ELSE attr[3]>>
    ELSE attr

SubSrcImagesTok(t) ==
    [t EXCEPT !.attrs = [a \in 1..Len(t.attrs) |-> SubSrcImages(t.attrs[a])]]

\* html_content.replace(f'../images/{COVER_SOURCE_NAME}', '../images/cover.jpg')
ReplaceCover(atoms, cover) ==
    [j \in 1..Len(atoms) |->
        IF j > 1 /\ atoms[j - 1] = ImagesDir /\ atoms[j] = cover
        THEN "cover.jpg" ELSE atoms[j]]

ReplaceCoverTok(t, cover) ==
    [t EXCEPT !.txt = ReplaceCover(t.txt, cover),
              !.attrs = [a \in 1..Len(t.attrs) |->
                            <<t.attrs[a][1], ReplaceCover(t.attrs[a][2], cover), t.attrs[a][3]>>]]

\* Mutant: the cover name is normalised before the directories are rewritten.
FixImagePaths_CoverFirst(html, cover) ==
    LET c == [i \in 1..Len(html) |->
                 IF cover # NoCover THEN ReplaceCoverTok(html[i], cover) ELSE html[i]]
    IN [i \in 1..Len(html) |-> SubSrcImagesTok(SubMediaDirTok(c[i]))]

FixImagePaths(html, cover) ==
    LET a == [i \in 1..Len(html) |-> SubMediaDirTok(html[i])]
        b == [i \in 1..Len(html) |-> SubSrcImagesTok(a[i])]
    IN IF cover # NoCover
       THEN [i \in 1..Len(html) |-> ReplaceCoverTok(b[i], cover)]
       ELSE b

(***************************************************************************)
(* clean_html_tags and extract_text_from_html                              *)
(***************************************************************************)
\* f"{BOOK_ID}_"
BookPrefix == "bk_"

\* <z\s+class=['"]s['"]> and <z\s+class=["']w["']>: a z tag whose only
\* attribute is that class.
\* Mutant: an opening z tag matches whatever its attributes are.
IsZOpen_AnyShape(t, cls) == t.k = "open" /\ t.tag = "z"

IsZOpen(t, cls) ==
    /\ t.k = "open"
    /\ t.tag = "z"
    /\ Len(t.attrs) = 1
    /\ t.attrs[1][1] = "class"
    /\ t.attrs[1][2] = <<cls>>

\* </z>
IsZClose(t) == t.k = "close" /\ t.tag = "z"

\* re.sub(pattern, '', ...) for a pattern that matches whole tokens.
Remove(toks, Match(_)) == SelectSeq(toks, LAMBDA t : ~Match(t))

IsZOpenS(t) == IsZOpen(t, "s")

IsZOpenW(t) == IsZOpen(t, "w")

\* Mutant: the closing tags are left in.
RemoveZTags_OpeningOnly(toks) == Remove(Remove(toks, IsZOpenS), IsZOpenW)

\* The three re.sub calls that drop the z tags.
RemoveZTags(toks) == Remove(Remove(Remove(toks, IsZOpenS), IsZOpenW), IsZClose)

\* href="<BOOK_PREFIX>([^"]+)\.htm" -> href="\1.xhtml", double quotes only.
SubLegacyHref(attr) ==
    IF /\ attr[1] = "href"
       /\ attr[3] = "dd"
       /\ Len(attr[2]) = 3
       /\ attr[2][1] = BookPrefix
       /\ attr[2][3] = ".htm"
    THEN <<"href", <<attr[2][2], ".xhtml">>, "dd">>
    ELSE attr

CleanHtmlTags(html) ==
    LET z == RemoveZTags(html)
    IN [i \in 1..Len(z) |->
          [z[i] EXCEPT !.attrs = [a \in 1..Len(z[i].attrs) |-> SubLegacyHref(z[i].attrs[a])]]]

\* <br\s*/?\s*>: a br without attributes.
IsBareBr(t) == t.k = "void" /\ t.tag = "br" /\ t.attrs = <<>>

\* <[^>]+>
IsAnyTag(t) == t.k \in {"open", "close", "void"}

\* re.sub(r'\s+', ' ', text)
RECURSIVE CollapseSpace(_)
CollapseSpace(toks) ==
    IF toks = <<>> THEN <<>>
    ELSE IF IsSpace(Head(toks))
         THEN IF Len(toks) > 1 /\ IsSpace(toks[2])
              THEN CollapseSpace(Tail(toks))
              ELSE <<WS>> \o CollapseSpace(Tail(toks))
         ELSE <<Head(toks)>> \o CollapseSpace(Tail(toks))

\* text.strip()
RECURSIVE LStrip(_)
LStrip(toks) ==
    IF toks # <<>> /\ IsSpace(Head(toks)) THEN LStrip(Tail(toks)) ELSE toks

RECURSIVE RStrip(_)
RStrip(toks) ==
    IF toks # <<>> /\ IsSpace(toks[Len(toks)])
    THEN RStrip(SubSeq(toks, 1, Len(toks) - 1)) ELSE toks

Strip(toks) == RStrip(LStrip(toks))

\* extract_text_from_html returns None: there is no text.
NoText == <<Text(<<"None">>)>>

ExtractTextFromHtml(html) ==
    IF html = <<>> THEN NoText
    ELSE
    LET z == RemoveZTags(html)
        b == [i \in 1..Len(z) |-> IF IsBareBr(z[i]) THEN WS ELSE z[i]]
        t == Remove(b, IsAnyTag)
        text == Strip(CollapseSpace(t))
    IN IF text # <<>> THEN text ELSE NoText

(***************************************************************************)
(* add_aria_hidden_to_br_hr                                                *)
(***************************************************************************)
\* Mutant: the attribute is added whether or not it is there.
CarriesAriaHidden_Never(attrs) == FALSE

\* 'aria-hidden' in existing_attrs
CarriesAriaHidden(attrs) == HasAttr(attrs, "aria-hidden")

\* Mutant: a tag that carries the attribute is put in self-closing form too.
AddAriaHiddenToSelfClosing_Normalised(t) ==
    IF HasAttr(t.attrs, "aria-hidden") THEN [t EXCEPT !.end = " />"]
    ELSE [t EXCEPT !.attrs = Append(t.attrs, Attr("aria-hidden", "true")),
                   !.end = " />"]

\* _add_aria_hidden_to_self_closing(full_tag, tag_name, existing_attrs)
AddAriaHiddenToSelfClosing(t) ==
    IF CarriesAriaHidden(t.attrs) THEN t
    ELSE [t EXCEPT !.attrs = Append(t.attrs, Attr("aria-hidden", "true")),
                   !.end = " />"]

\* <br(\s[^>]*?)?\s*/?> and <hr(\s[^>]*?)?\s*/?>
IsBrOrHr(t) == t.k = "void" /\ t.tag \in {"br", "hr"}

AddAriaHiddenToBrHr(html) ==
    [i \in 1..Len(html) |->
        IF IsBrOrHr(html[i]) THEN AddAriaHiddenToSelfClosing(html[i]) ELSE html[i]]

(***************************************************************************)
(* ensure_unique_ids called on its own, then again on what it returned.    *)
(***************************************************************************)
\* The opening tags a fragment element may have.
IdsTopTags ==
    {Open("p", <<>>), Open("p", <<Attr("id", "a")>>),
     Open("p", <<Attr("data-id", "d")>>), Open("span", <<>>),
     Open("div", <<Attr("class", "box")>>)}

\* What an element may hold: text, or a paragraph nested directly after the
\* opening tag, or after a space.
IdsBodies ==
    {<<Text(<<"x">>)>>,
     <<Open("p", <<>>), Text(<<"x">>), Close("p")>>,
     <<WS, Open("p", <<>>), Text(<<"x">>), Close("p")>>}

\* One element, with or without a space before it.
IdsElements ==
    {lead \o <<o>> \o body \o <<Close(o.tag)>> :
        lead \in {<<>>, <<WS>>}, o \in IdsTopTags, body \in IdsBodies}

IdsFragments(max) ==
    UNION {{Flatten(es) : es \in [1..n -> IdsElements]} : n \in 0..max}

MainIdle ==
    /\ toc = <<>>
    /\ pages = {}
    /\ sorted_toc = <<>>
    /\ loop_i = 0
    /\ page_number = 0
    /\ html_content = NoDoc
    /\ written = <<>>
    /\ xhtml_dir = {}
    /\ mpc = "idle"
    /\ input = "ok"
    /\ raised = NoError
    /\ metadata_created = FALSE
    /\ epub_created = FALSE

InitIds ==
    /\ MainIdle
    /\ PageIdle
    /\ arg \in [html : IdsFragments(MaxElems), page_number : {1}, counter : 0..MaxStartCounter]
    /\ res = "idle"
    /\ res2 = "idle"
    /\ fpc = "call"

\* result, element_counter = ensure_unique_ids(html_content, page_number, element_counter)
CallEnsureUniqueIds ==
    /\ fpc = "call"
    /\ res' = EnsureUniqueIds(arg.html, arg.page_number, arg.counter)
    /\ fpc' = "called"
    /\ UNCHANGED <<arg, res2, mainVars, pageVars>>

\* The same call on the markup returned, with any counter.
RecallEnsureUniqueIds ==
    /\ fpc = "called"
    /\ \E c \in 0..(MaxStartCounter + 1) :
          LET r == EnsureUniqueIds(res.html, arg.page_number, c)
          IN res2' = [html |-> r.html, counter |-> r.counter, given |-> c]
    /\ fpc' = "recalled"
    /\ UNCHANGED <<arg, res, mainVars, pageVars>>

NextIds == CallEnsureUniqueIds \/ RecallEnsureUniqueIds

SpecIds == InitIds /\ [][NextIds]_vars

(***************************************************************************)
(* add_aria_hidden_to_br_hr called on its own, then again on its result.   *)
(***************************************************************************)
AriaTokens ==
    {Void("br", <<>>, ">"), Void("br", <<>>, "/>"), Void("br", <<>>, " />"),
     Void("br", <<Attr("class", "x")>>, ">"),
     Void("br", <<Attr("aria-hidden", "true")>>, ">"),
     Void("br", <<Attr("class", "x"), Attr("aria-hidden", "true")>>, " />"),
     Void("hr", <<>>, ">"),
     Void("hr", <<Attr("aria-hidden", "false")>>, "/>"),
     Void("img", <<Attr("alt", "x")>>, " />"),
     Text(<<"x">>), WS}

InitAria ==
    /\ MainIdle
    /\ PageIdle
    /\ arg \in [html : UNION {[1..n -> AriaTokens] : n \in 0..MaxAriaToks}]
    /\ res = "idle"
    /\ res2 = "idle"
    /\ fpc = "call"

CallAddAriaHidden ==
    /\ fpc = "call"
    /\ res' = [html |-> AddAriaHiddenToBrHr(arg.html)]
    /\ fpc' = "called"
    /\ UNCHANGED <<arg, res2, mainVars, pageVars>>

RecallAddAriaHidden ==
    /\ fpc = "called"
    /\ res2' = [html |-> AddAriaHiddenToBrHr(res.html)]
    /\ fpc' = "recalled"
    /\ UNCHANGED <<arg, res, mainVars, pageVars>>

NextAria == CallAddAriaHidden \/ RecallAddAriaHidden

SpecAria == InitAria /\ [][NextAria]_vars

(***************************************************************************)
(* fix_image_paths called on its own.                                      *)
(***************************************************************************)
PathDirs == {InputMediaDir, "images/", ImagesDir, "http://x/"}

PathFiles == {"cvr.jpg", "foo.jpg"}

PathTokens ==
    {Void("img", <<<<"src", <<d, f>>, q>>>>, " />") :
        d \in PathDirs, f \in PathFiles, q \in {"dd", "ss"}}
    \cup {Open("a", <<<<"href", <<d, f>>, "dd">>>>) : d \in {InputMediaDir, "images/"}, f \in PathFiles}
    \cup {Text(<<InputMediaDir, "foo.jpg">>), Text(<<"see">>)}

InitPath ==
    /\ MainIdle
    /\ PageIdle
    /\ arg \in [html : UNION {[1..n -> PathTokens] : n \in 0..MaxRefs},
                cover : {NoCover, "cvr.jpg"}]
    /\ res = "idle"
    /\ res2 = "idle"
    /\ fpc = "call"

CallFixImagePaths ==
    /\ fpc = "call"
    /\ res' = [html |-> FixImagePaths(arg.html, arg.cover)]
    /\ fpc' = "called"
    /\ UNCHANGED <<arg, res2, mainVars, pageVars>>

NextPath == CallFixImagePaths

SpecPath == InitPath /\ [][NextPath]_vars

(***************************************************************************)
(* clean_html_tags and extract_text_from_html called on the same fragment. *)
(***************************************************************************)
ZS == Open("z", <<<<"class", <<"s">>, "ss">>>>)

ZW == Open("z", <<<<"class", <<"w">>, "dd">>>>)

StripSeparators == {<<>>, <<WS>>, <<NL>>, <<Void("br", <<>>, "/>")>>}

StripWords == {<<>>, <<Text(<<"Hello">>)>>, <<Text(<<"World">>)>>}

\* A word on its own, in a wrapper tag, in a z tag of another class, or in a
\* link to a legacy page file.
Wrapped(w) ==
    {w,
     <<ZS>> \o w \o <<Close("z")>>,
     <<ZW>> \o w \o <<Close("z")>>,
     <<Open("z", <<Attr("class", "x")>>)>> \o w \o <<Close("z")>>,
     <<Open("a", <<<<"href", <<BookPrefix, "c1", ".htm">>, "dd">>>>)>> \o w \o <<Close("a")>>}

StripUnits ==
    UNION {{sep \o u : u \in Wrapped(w)} : sep \in StripSeparators, w \in StripWords}

StripFragments(max) ==
    UNION {{Flatten(us) : us \in [1..n -> StripUnits]} : n \in 0..max}

InitStrip ==
    /\ MainIdle
    /\ PageIdle
    /\ arg \in [html : StripFragments(MaxWords)]
    /\ res = "idle"
    /\ res2 = "idle"
    /\ fpc = "call"

CallCleanHtmlTags ==
    /\ fpc = "call"
    /\ res' = [html |-> CleanHtmlTags(arg.html)]
    /\ fpc' = "called"
    /\ UNCHANGED <<arg, res2, mainVars, pageVars>>

CallExtractText ==
    /\ fpc = "called"
    /\ res2' = [html |-> ExtractTextFromHtml(arg.html)]
    /\ fpc' = "recalled"
    /\ UNCHANGED <<arg, res, mainVars, pageVars>>

NextStrip == CallCleanHtmlTags \/ CallExtractText

SpecStrip == InitStrip /\ [][NextStrip]_vars

(***************************************************************************)
(* generate_html_page: the page composer.  html_parts is a list of lines,  *)
(* each a sequence of tokens; '\n'.join and split('\n') turn the list into *)
(* one sequence with line breaks and back.                                 *)
(***************************************************************************)
\* A declaration of the document prolog: <?xml ...?> or <!DOCTYPE html>.
Decl(s) == [k |-> "decl", tag |-> "", attrs |-> <<>>, txt |-> <<s>>, end |-> ""]

\* The leading spaces of a line the composer emits.
Indent(toks) == <<WS>> \o toks

\* '\n'.join(html_parts)
RECURSIVE JoinLines(_)
JoinLines(lines) ==
    IF lines = <<>> THEN <<>>
    ELSE IF Len(lines) = 1 THEN lines[1]
    ELSE lines[1] \o <<NL>> \o JoinLines(Tail(lines))

\* combined_html.split('\n')
RECURSIVE SplitLines(_)
SplitLines(toks) ==
    IF \E i \in 1..Len(toks) : toks[i].k = "nl"
    THEN LET i == CHOOSE i \in 1..Len(toks) :
                      /\ toks[i].k = "nl"
                      /\ \A j \in 1..(i - 1) : toks[j].k # "nl"
         IN <<SubSeq(toks, 1, i - 1)>> \o SplitLines(SubSeq(toks, i + 1, Len(toks)))
    ELSE <<toks>>

\* page_id == 'cvi' or page_id.startswith('cover')
CoverPageIds == {"cvi", "cover2"}

IsCoverPage(page_id) == page_id \in CoverPageIds

\* page_id == 'tp' or page_id.startswith('titlepage')
TitlePageIds == {"tp", "titlepage2"}

IsTitlePage(page_id) == page_id \in TitlePageIds

\* page_id.startswith('glossary')
GlossaryPageIds == {"glossary1"}

\* Mutant: the classification without its copyright branch.
EpubType_NoCopyright(page_id) ==
    IF IsCoverPage(page_id) THEN "frontmatter cover"
    ELSE IF IsTitlePage(page_id) THEN "frontmatter titlepage"
    ELSE IF page_id = "content" THEN "frontmatter content"
    ELSE IF page_id \in GlossaryPageIds THEN "glossary"
    ELSE "bodymatter chapter"

EpubType(page_id) ==
    IF IsCoverPage(page_id) THEN "frontmatter cover"
    ELSE IF IsTitlePage(page_id) THEN "frontmatter titlepage"
    ELSE IF IsCopyrightPage(page_id) THEN "frontmatter copyright"
    ELSE IF page_id = "content" THEN "frontmatter content"
    ELSE IF page_id \in GlossaryPageIds THEN "glossary"
    ELSE "bodymatter chapter"

\* Mutant: every page type uses the default section class.
SectionClass_PageContainer(page_id) == "page-container"

SectionClass(page_id) ==
    IF ~IsCoverPage(page_id) /\ ~IsTitlePage(page_id) /\ ~IsCopyrightPage(page_id)
       /\ page_id # "content" /\ page_id \in GlossaryPageIds
    THEN "glossary" ELSE "page-container"

\* The link element of a stylesheet.
StylesheetLink(file) ==
    Void("link", <<Attr("rel", "stylesheet"), Attr("type", "text/css"),
                   <<"href", <<"../css/", file>>, "dd">>>>, " />")

\* html_parts as first built: the prolog, the head and the opening of the
\* body, the main element and the section of the page.
ShellLines(page_id, num, custom_css) ==
    << <<Decl("<?xml version=\"1.0\" encoding=\"UTF-8\"?>")>>,
       <<Decl("<!DOCTYPE html>")>>,
       <<Open("html", <<Attr("xmlns", "http://www.w3.org/1999/xhtml"),
                        Attr("xmlns:epub", "http://www.idpf.org/2007/ops"),
                        Attr("lang", "en")>>)>>,
       <<>>,
       <<Open("head", <<>>)>>,
       Indent(<<Void("meta", <<Attr("charset", "utf-8")>>, " />")>>),
       Indent(<<Void("meta", <<Attr("name", "viewport"),
                               Attr("content", "width=device-width, initial-scale=1.0")>>, "/>")>>),
       Indent(<<Open("title", <<>>), Text(<<page_id>>), Close("title")>>),
       Indent(<<StylesheetLink("epub.css")>>) >>
    \o (IF custom_css THEN <<Indent(<<StylesheetLink("custom.css")>>)>> ELSE <<>>)
    \o << <<Close("head")>>,
          <<>>,
          <<Open("body", <<>>)>>,
          Indent(<<Open("main", <<Attr("role", "main")>>)>>),
          Indent(<<Open("section", <<Attr("id", SectionId(page_id, num)),
                                     Attr("epub:type", EpubType(page_id)),
                                     Attr("class", SectionClass(page_id))>>)>>) >>

PageLabel(page_id, num) ==
    IF IsCoverPage(page_id) THEN "Cover Page" ELSE "Page " \o ToString(num)

\* The page break marker.
PagebreakLine(page_id, num) ==
    Indent(<<Open("span", <<Attr("epub:type", "pagebreak"), Attr("role", "doc-pagebreak"),
                            Attr("id", "pagebreak_" \o ToString(num))>>),
             Open("span", <<Attr("class", "sr-only")>>),
             Text(<<PageLabel(page_id, num)>>), Close("span"), Close("span")>>)

\* f'Book cover of "{BOOK_TITLE}" by {BOOK_AUTHOR}'
CoverHeadingText == "Book cover of \"T\" by A"

\* The hidden heading of the cover page.
CoverHeadingLine(num, counter) ==
    Indent(<<Open("h1", <<Attr("id", PageElementId(IF num # NoPageNum THEN num ELSE 1, counter)),
                          Attr("class", "visually-hidden")>>),
             Text(<<CoverHeadingText>>), Close("h1")>>)

\* html_parts and element_counter when the loop over the sentences starts.
StartLines(page_id, num, custom_css) ==
    ShellLines(page_id, num, custom_css)
    \o (IF num # NoPageNum THEN <<PagebreakLine(page_id, num)>> ELSE <<>>)
    \o (IF IsCoverPage(page_id)
        THEN <<CoverHeadingLine(num, IF num # NoPageNum THEN 2 ELSE 1)>> ELSE <<>>)

\* Mutant: the marker and the cover heading consume no slot.
StartCounter_Zero(page_id, num) == 0

\* element_counter when the loop over the sentences starts.
StartCounter(page_id, num) ==
    (IF num # NoPageNum THEN 1 ELSE 0) + (IF IsCoverPage(page_id) THEN 1 ELSE 0)

\* f'Book cover of &quot;{BOOK_TITLE}&quot; by {BOOK_AUTHOR}'
CoverAltText == "Book cover of &quot;T&quot; by A"

IsImg(t) == IsTag(t) /\ t.tag = "img"

\* The alt text of the images of a cover page: every alt="..." of the
\* sentence is replaced; when the sentence has none, every img gets one.
CoverAlt(html, page_id) ==
    IF IsCoverPage(page_id) /\ \E i \in 1..Len(html) : IsImg(html[i])
    THEN IF \E i \in 1..Len(html) : HasAttr(html[i].attrs, "alt")
         THEN [i \in 1..Len(html) |->
                 [html[i] EXCEPT !.attrs =
                     [a \in 1..Len(@) |->
                         IF @[a][1] = "alt" THEN Attr("alt", CoverAltText) ELSE @[a]]]]
         ELSE [i \in 1..Len(html) |->
                 IF IsImg(html[i])
                 THEN [html[i] EXCEPT !.attrs = Append(@, Attr("alt", CoverAltText))]
                 ELSE html[i]]
    ELSE html

\* Mutant: the tag stripper is called before the path rewriter.
SentencePasses_StripFirst(num) ==
    <<"clean_html_tags", "fix_image_paths", "add_aria_hidden_to_br_hr", "cover alt">>
    \o (IF num # NoPageNum THEN <<"ensure_unique_ids">> ELSE <<>>)

\* The statements of the loop body over one non-empty sentence, in the
\* order they are written: three calls, the cover's alt text, and the call
\* of ensure_unique_ids under `if page_number is not None`.
SentencePasses(num) ==
    <<"fix_image_paths", "clean_html_tags", "add_aria_hidden_to_br_hr", "cover alt">>
    \o (IF num # NoPageNum THEN <<"ensure_unique_ids">> ELSE <<>>)

\* One statement of the loop body, on the sentence and the counter.
ApplyPass(name, st, page_id, num, cover) ==
    CASE name = "fix_image_paths" ->
            [st EXCEPT !.html = FixImagePaths(st.html, cover)]
      [] name = "clean_html_tags" ->
            [st EXCEPT !.html = CleanHtmlTags(st.html)]
      [] name = "add_aria_hidden_to_br_hr" ->
            [st EXCEPT !.html = AddAriaHiddenToBrHr(st.html)]
      [] name = "cover alt" ->
            [st EXCEPT !.html = CoverAlt(st.html, page_id)]
      [] name = "ensure_unique_ids" ->
            EnsureUniqueIds(st.html, num, st.counter)

RECURSIVE RunPasses(_, _, _, _, _)
RunPasses(names, st, page_id, num, cover) ==
    IF names = <<>> THEN st
    ELSE RunPasses(Tail(names), ApplyPass(Head(names), st, page_id, num, cover),
                   page_id, num, cover)

\* The functions called among the statements.
CalledPasses(names) == SelectSeq(names, LAMBDA n : n # "cover alt")

\* The passes over one sentence, in the order of the loop body.
ProcessSentence(sentence_text, page_id, num, counter, cover) ==
    RunPasses(SentencePasses(num), [html |-> sentence_text, counter |-> counter],
              page_id, num, cover)

\* Mutant: the class is looked for in the first attribute only.
IsAuthorHeading_FirstAttr(t) ==
    /\ t.k = "open" /\ t.tag = "h1"
    /\ Len(t.attrs) >= 1 /\ t.attrs[1][1] = "class" /\ t.attrs[1][2] = <<"author">>

\* <h1 ... class='author' ...>...</h1> becomes <p ...>...</p>: an h1 whose
\* class is author, up to the first </h1> after it.
IsAuthorHeading(t) ==
    /\ t.k = "open" /\ t.tag = "h1"
    /\ \E a \in 1..Len(t.attrs) : t.attrs[a][1] = "class" /\ t.attrs[a][2] = <<"author">>

\* The position of the first closing tag of the element from position from
\* on, 0 when there is none.
NextClose(toks, from, tag) ==
    IF \E j \in from..Len(toks) : toks[j].k = "close" /\ toks[j].tag = tag
    THEN CHOOSE j \in from..Len(toks) :
            /\ toks[j].k = "close" /\ toks[j].tag = tag
            /\ \A m \in from..(j - 1) : ~(toks[m].k = "close" /\ toks[m].tag = tag)
    ELSE 0

RECURSIVE SubAuthorHeading(_, _)
SubAuthorHeading(toks, i) ==
    IF i > Len(toks) THEN <<>>
    ELSE IF IsAuthorHeading(toks[i]) /\ NextClose(toks, i + 1, "h1") # 0
         THEN LET j == NextClose(toks, i + 1, "h1")
              IN <<[toks[i] EXCEPT !.tag = "p"]>> \o SubSeq(toks, i + 1, j - 1)
                 \o <<Close("p")>> \o SubAuthorHeading(toks, j + 1)
         ELSE <<toks[i]>> \o SubAuthorHeading(toks, i + 1)

\* The closing lines of the document.
ClosingLines ==
    << Indent(<<Close("section")>>), Indent(<<Close("main")>>), <<Close("body")>>,
       <<>>, <<Close("html")>> >>

(***************************************************************************)
(* convert_copyright_structure                                             *)
(***************************************************************************)
IsOpenP(t) == t.k = "open" /\ t.tag = "p"

\* Mutant: the class is looked for among all the attributes.
FirstClassIs_Anywhere(attrs, cls) ==
    \E a \in 1..Len(attrs) : attrs[a][1] = "class" /\ attrs[a][2] = <<cls>>

\* <p\s+class=["\']CLS["\']: the class is the first attribute of the tag
\* and has exactly this value.
FirstClassIs(attrs, cls) ==
    /\ Len(attrs) >= 1
    /\ attrs[1][1] = "class"
    /\ attrs[1][2] = <<cls>>

\* <p class='nonindent1' ATTRS>CONTENT</p> becomes <h1 ATTRS>CONTENT</h1>,
\* CONTENT reaching to the first </p> after the tag.
RECURSIVE SubPromoteH1(_, _)
SubPromoteH1(toks, i) ==
    IF i > Len(toks) THEN <<>>
    ELSE IF IsOpenP(toks[i]) /\ FirstClassIs(toks[i].attrs, "nonindent1")
            /\ NextClose(toks, i + 1, "p") # 0
         THEN LET j == NextClose(toks, i + 1, "p")
              IN <<Open("h1", Tail(toks[i].attrs))>> \o SubSeq(toks, i + 1, j - 1)
                 \o <<Close("h1")>> \o SubPromoteH1(toks, j + 1)
         ELSE <<toks[i]>> \o SubPromoteH1(toks, i + 1)

\* The marker of the second-level heading, in the spellings IGNORECASE
\* accepts.
MarkerWords == {"Bestellers", "bestellers"}

HasMarker(t) == t.k = "text" /\ \E a \in 1..Len(t.txt) : t.txt[a] \in MarkerWords

\* Bestellers[^<]*?</p>: from the marker on there is no tag up to a </p>.
MarkerEndsParagraph(toks, m) ==
    /\ HasMarker(toks[m])
    /\ \E j \in (m + 1)..Len(toks) :
          /\ toks[j].k = "close" /\ toks[j].tag = "p"
          /\ \A x \in (m + 1)..(j - 1) : toks[x].k \in {"text", "ws", "nl"}

\* (.*?Bestellers[^<]*?)</p> after the tag at i: the </p> that ends the
\* match, 0 when the pattern does not match from i.  .*? crosses tags and
\* line breaks (DOTALL) up to the first marker the match can end at.
MarkerMatchEnd(toks, i) ==
    IF \E m \in (i + 1)..Len(toks) : MarkerEndsParagraph(toks, m)
    THEN LET m == CHOOSE m \in (i + 1)..Len(toks) :
                      /\ MarkerEndsParagraph(toks, m)
                      /\ \A x \in (i + 1)..(m - 1) : ~MarkerEndsParagraph(toks, x)
         IN NextClose(toks, m + 1, "p")
    ELSE 0

\* <p class='nonindent' ATTRS>...Bestellers...</p> becomes <h2 ATTRS>...</h2>
RECURSIVE SubPromoteH2(_, _)
SubPromoteH2(toks, i) ==
    IF i > Len(toks) THEN <<>>
    ELSE IF IsOpenP(toks[i]) /\ FirstClassIs(toks[i].attrs, "nonindent")
            /\ MarkerMatchEnd(toks, i) # 0
         THEN LET j == MarkerMatchEnd(toks, i)
              IN <<Open("h2", Tail(toks[i].attrs))>> \o SubSeq(toks, i + 1, j - 1)
                 \o <<Close("h2")>> \o SubPromoteH2(toks, j + 1)
         ELSE <<toks[i]>> \o SubPromoteH2(toks, i + 1)

\* html_content after the two heading substitutions.
PromoteHeadings(html) == SubPromoteH2(SubPromoteH1(html, 1), 1)

\* lines = html_content.split('\n')
CopyrightLines(html) == SplitLines(PromoteHeadings(html))

\* p_match: <p([^>]*)>(.*?)</p> searched in the line.  The position of the
\* opening tag, 0 when the line has no match.
PMatch(line) ==
    IF \E i \in 1..Len(line) : IsOpenP(line[i]) /\ NextClose(line, i + 1, "p") # 0
    THEN CHOOSE i \in 1..Len(line) :
            /\ IsOpenP(line[i]) /\ NextClose(line, i + 1, "p") # 0
            /\ \A x \in 1..(i - 1) : ~IsOpenP(line[x])
    ELSE 0

\* p_match.group(1)
PAttrs(line) == line[PMatch(line)].attrs

\* p_match.group(2).strip()
PContent(line) ==
    Strip(SubSeq(line, PMatch(line) + 1, NextClose(line, PMatch(line) + 1, "p") - 1))

\* The class values that start with nonindent or crt.
SpecialClassNames == {"nonindent", "nonindent1", "crt", "crt1"}

\* re.search(r'class=["\'](nonindent|crt)', attrs)
SpecialClass(attrs) ==
    \E a \in 1..Len(attrs) :
        /\ attrs[a][1] = "class"
        /\ attrs[a][2] # <<>>
        /\ attrs[a][2][1] \in SpecialClassNames

NonBreakingSpaces == {<<Text(<<"&#x00A0;">>)>>, <<Text(<<"&nbsp;">>)>>}

\* Mutant: a paragraph is a list item whatever its content.
IsListItemContent_Any(content) == TRUE

\* content and content not in ['&#x00A0;', '&nbsp;', '']
IsListItemContent(content) == content # <<>> /\ content \notin NonBreakingSpaces

Headings == {"h1", "h2", "h3", "h4", "h5", "h6"}

\* re.search(r'<h[1-6]', current_line)
HasHeadingTag(line) == \E x \in 1..Len(line) : IsTag(line[x]) /\ line[x].tag \in Headings

\* The inner loop: the contents of the list items collected from line j on.
RECURSIVE CollectItems(_, _)
CollectItems(lines, j) ==
    IF j > Len(lines) THEN <<>>
    ELSE LET line == lines[j]
         IN IF \/ HasHeadingTag(line)
               \/ PMatch(line) # 0 /\ SpecialClass(PAttrs(line))
               \/ PMatch(line) = 0 /\ ~IsBlank(line)
            THEN <<>>
            ELSE IF PMatch(line) # 0 /\ IsListItemContent(PContent(line))
                 THEN <<PContent(line)>> \o CollectItems(lines, j + 1)
                 ELSE <<>>

\* '            <ul class="bestellers_list">'
UlOpenLine == Indent(<<Open("ul", <<Attr("class", "bestellers_list")>>)>>)

\* f'                <li>{li_content}</li>'
LiLine(content) == Indent(<<Open("li", <<>>)>> \o content \o <<Close("li")>>)

\* '            </ul>'
UlCloseLine == Indent(<<Close("ul")>>)

\* Lines 413-439: list_items of the iteration at line i.
ListItems(lines, i) ==
    IF /\ PMatch(lines[i]) # 0
       /\ ~SpecialClass(PAttrs(lines[i]))
       /\ IsListItemContent(PContent(lines[i]))
    THEN CollectItems(lines, i) ELSE <<>>

\* Lines 448 and 452: the index after the iteration at line i.
NextIndex(i, list_items) == IF Len(list_items) >= 2 THEN i + Len(list_items) ELSE i + 1

\* Lines 442-451: the lines the iteration at line i appends to result_lines.
IterationLines(lines, i, list_items) ==
    IF Len(list_items) >= 2
    THEN <<UlOpenLine>>
         \o [n \in 1..Len(list_items) |-> LiLine(list_items[n])]
         \o <<UlCloseLine>>
    ELSE <<lines[i]>>

\* The outer loop: result_lines from line i on.
RECURSIVE ClusterLines(_, _)
ClusterLines(lines, i) ==
    IF i > Len(lines) THEN <<>>
    ELSE LET line == lines[i]
             list_items == ListItems(lines, i)
         IN IF Len(list_items) >= 2
            THEN <<UlOpenLine>>
                 \o [n \in 1..Len(list_items) |-> LiLine(list_items[n])]
                 \o <<UlCloseLine>>
                 \o ClusterLines(lines, i + Len(list_items))
            ELSE <<line>> \o ClusterLines(lines, i + 1)

\* (<body>.*?</body>): the position of the <body> of the match, 0 when
\* there is no match.
BodyMatch(html) ==
    IF \E i \in 1..Len(html) : html[i] = Open("body", <<>>) /\ NextClose(html, i + 1, "body") # 0
    THEN CHOOSE i \in 1..Len(html) :
            /\ html[i] = Open("body", <<>>) /\ NextClose(html, i + 1, "body") # 0
            /\ \A x \in 1..(i - 1) : html[x] # Open("body", <<>>)
    ELSE 0

\* (<head>.*?</head>) matches.
HeadMatch(html) ==
    \E i \in 1..Len(html) : html[i] = Open("head", <<>>) /\ NextClose(html, i + 1, "head") # 0

\* current_ul_id = None
NoUl == ""

\* re.sub(r'\s+id=["\'][^"\']+["\']', '', attrs), then the new id appended.
WithFreshId(attrs, id) ==
    Append(SelectSeq(attrs, LAMBDA a : ~(a[1] = "id" /\ a[2] # <<>> /\ a[2] # <<"">>)),
           Attr("id", id))

HasOpen(line, tags) == \E x \in 1..Len(line) : IsTag(line[x]) /\ line[x].tag \in tags

\* The attributes of the first tag of the line that is one of tags.
FirstOpenAttrs(line, tags) ==
    line[CHOOSE x \in 1..Len(line) :
            /\ IsTag(line[x]) /\ line[x].tag \in tags
            /\ \A y \in 1..(x - 1) : ~(IsTag(line[y]) /\ line[y].tag \in tags)].attrs

\* re.sub(r'<TAG[^>]*>', f'<TAG{new_attrs}>', line): every such tag of the
\* line gets the same attributes.
SetAttrs(line, tag, attrs) ==
    [x \in 1..Len(line) |->
        IF IsTag(line[x]) /\ line[x].tag = tag
        THEN [line[x] EXCEPT !.attrs = attrs, !.k = "open", !.end = ">"]
        ELSE line[x]]

\* 'pagebreak' in line
MentionsPagebreak(line) ==
    \E x \in 1..Len(line) : \E a \in 1..Len(line[x].attrs) :
        line[x].attrs[a][2] = <<"pagebreak">>

\* <(link|meta|script|style|title)
HeadOnlyTags == {"link", "meta", "script", "style", "title"}

\* <(?P<tag>h[1-6]|p|div|section)(?P<attrs>(?:\s+[^>]*?)?)>
ReassignedElements == Headings \cup {"p", "div", "section"}

\* re.sub(..., replace_element_id, line) from token x on, the counter at c.
RECURSIVE SubReplaceElementId(_, _, _, _)
SubReplaceElementId(line, x, n, c) ==
    IF x > Len(line) THEN [line |-> <<>>, counter |-> c]
    ELSE IF line[x].k = "open" /\ line[x].tag \in ReassignedElements
         THEN LET rest == SubReplaceElementId(line, x + 1, n, c + 1)
              IN [line |-> <<[line[x] EXCEPT !.attrs = WithFreshId(@, PageElementId(n, c + 1))]>>
                           \o rest.line,
                  counter |-> rest.counter]
         ELSE LET rest == SubReplaceElementId(line, x + 1, n, c)
              IN [line |-> <<line[x]>> \o rest.line, counter |-> rest.counter]

\* One turn of the loop over body_lines.  st holds element_counter,
\* current_ul_id, li_counter and in_head_section.
ReassignLine(line, st, n) ==
    IF HasOpen(line, {"head", "header"})
    THEN [line |-> line, st |-> [st EXCEPT !.in_head_section = TRUE]]
    ELSE IF \E x \in 1..Len(line) : line[x].k = "close" /\ line[x].tag \in {"head", "header"}
    THEN [line |-> line, st |-> [st EXCEPT !.in_head_section = FALSE]]
    ELSE IF st.in_head_section \/ MentionsPagebreak(line) \/ HasOpen(line, HeadOnlyTags)
    THEN [line |-> line, st |-> st]
    ELSE
    LET ul_match == HasOpen(line, {"ul"})
        st1 == IF ul_match
               THEN [st EXCEPT !.element_counter = @ + 1,
                               !.current_ul_id = PageElementId(n, st.element_counter + 1),
                               !.li_counter = 0]
               ELSE st
        line1 == IF ul_match
                 THEN SetAttrs(line, "ul", WithFreshId(FirstOpenAttrs(line, {"ul"}), st1.current_ul_id))
                 ELSE line
        li_match == HasOpen(line1, {"li"})
        st2 == IF ~li_match THEN st1
               ELSE IF st1.current_ul_id # NoUl
                    THEN [st1 EXCEPT !.li_counter = @ + 1]
                    ELSE [st1 EXCEPT !.li_counter = @ + 1, !.element_counter = @ + 1]
        new_li_id == IF st1.current_ul_id # NoUl
                     THEN st1.current_ul_id \o "_" \o ToString(st2.li_counter)
                     ELSE PageElementId(n, st2.element_counter)
        line2 == IF li_match
                 THEN SetAttrs(line1, "li", WithFreshId(FirstOpenAttrs(line1, {"li"}), new_li_id))
                 ELSE line1
        blocks == SubReplaceElementId(line2, 1, n, st2.element_counter)
    IN IF ul_match \/ li_match
       THEN [line |-> line2, st |-> st2]
       ELSE [line |-> blocks.line, st |-> [st2 EXCEPT !.element_counter = blocks.counter]]

\* The loop over body_lines from line i on: final_body_lines.
RECURSIVE ReassignIds(_, _, _, _)
ReassignIds(lines, i, st, n) ==
    IF i > Len(lines) THEN <<>>
    ELSE LET r == ReassignLine(lines[i], st, n)
         IN <<r.line>> \o ReassignIds(lines, i + 1, r.st, n)

ConvertCopyrightStructure(html, page_id, num) ==
    IF ~IsCopyrightPage(page_id) THEN html
    ELSE
    LET result_lines == ClusterLines(CopyrightLines(html), 1)
        converted_html == JoinLines(result_lines)
        b == BodyMatch(converted_html)
        e == NextClose(converted_html, b + 1, "body")
        body_content == IF b = 0 THEN converted_html ELSE SubSeq(converted_html, b, e)
        page_num == IF num # NoPageNum THEN num ELSE DefaultCopyrightPageNum
        st0 == [element_counter |-> 0, current_ul_id |-> NoUl, li_counter |-> 0,
                in_head_section |-> FALSE]
        processed_body == JoinLines(ReassignIds(SplitLines(body_content), 1, st0, page_num))
    IN IF b # 0 /\ HeadMatch(converted_html)
       THEN SubSeq(converted_html, 1, b - 1) \o processed_body
            \o SubSeq(converted_html, e + 1, Len(converted_html))
       ELSE processed_body

(***************************************************************************)
(* generate_html_page as a state machine: the shell, one step per          *)
(* sentence, the transforms of the whole page, the closing lines.          *)
(***************************************************************************)
\* Lines 676-712: the shell, the page break marker, the cover heading.
StartPage ==
    /\ ppc = "start"
    /\ html_parts' = StartLines(pg_id, pg_number, custom_css_exists)
    /\ element_counter' = StartCounter(pg_id, pg_number)
    /\ idx' = 1
    /\ ppc' = "sentences"
    /\ UNCHANGED <<pg_id, pg_number, sentences, custom_css_exists, cover_source_name,
                   passes_run, mainVars, fnVars>>

\* Lines 715-748: one turn of the loop over the sentences.
AddSentence ==
    /\ ppc = "sentences"
    /\ idx <= Len(sentences)
    /\ LET sentence_text == sentences[idx]
           r == ProcessSentence(sentence_text, pg_id, pg_number, element_counter,
                                cover_source_name)
       IN IF sentence_text # <<>>
          THEN /\ html_parts' = Append(html_parts, Indent(r.html))
               /\ element_counter' = r.counter
               /\ passes_run' = passes_run \o CalledPasses(SentencePasses(pg_number))
          ELSE UNCHANGED <<html_parts, element_counter, passes_run>>
    /\ idx' = idx + 1
    /\ UNCHANGED <<pg_id, pg_number, sentences, ppc, custom_css_exists, cover_source_name,
                   mainVars, fnVars>>

\* Lines 751-755: the copyright page is joined, converted and split again.
CopyrightParts(parts, pid, num) ==
    IF IsCopyrightPage(pid)
    THEN SplitLines(ConvertCopyrightStructure(JoinLines(parts), pid, num))
    ELSE parts

\* Lines 758-767: the title page is joined, its author heading demoted, and
\* split again.
TitlePageParts(parts, pid) ==
    IF IsTitlePage(pid)
    THEN SplitLines(SubAuthorHeading(JoinLines(parts), 1))
    ELSE parts

\* Lines 750-767: the transforms of the whole page, after the last sentence.
Restructure ==
    /\ ppc = "sentences"
    /\ idx > Len(sentences)
    /\ html_parts' = TitlePageParts(CopyrightParts(html_parts, pg_id, pg_number), pg_id)
    /\ passes_run' = passes_run \o
          (IF IsCopyrightPage(pg_id) THEN <<"convert_copyright_structure">> ELSE <<>>)
    /\ ppc' = "restructured"
    /\ UNCHANGED <<pg_id, pg_number, sentences, idx, element_counter, custom_css_exists,
                   cover_source_name, mainVars, fnVars>>

\* Lines 769-777: the closing lines; the document is '\n'.join(html_parts).
ClosePage ==
    /\ ppc = "restructured"
    /\ html_parts' = html_parts \o ClosingLines
    /\ passes_run' = Append(passes_run, "closing lines")
    /\ ppc' = "done"
    /\ UNCHANGED <<pg_id, pg_number, sentences, idx, element_counter, custom_css_exists,
                   cover_source_name, mainVars, fnVars>>

NextPage == StartPage \/ AddSentence \/ Restructure \/ ClosePage

\* The page ids the composer is called with.
ComposerPageIds == {"cvi", "tp", "crt", "copyright2", "content", "glossary1", "c1"}

\* page_number of the call: None, or the number main() counted.
PageNumbers == {NoPageNum, 1, 2}

\* Sentence fragments of the source.
FragIdP == <<Open("p", <<Attr("id", "page_1_2")>>), Text(<<"A">>), Close("p")>>

FragP == <<Open("p", <<>>), Text(<<"B">>), Close("p")>>

FragAuthor ==
    <<Open("h1", <<Attr("class", "author"), Attr("id", "a1")>>), Text(<<"N">>), Close("h1")>>

FragImg == <<Void("img", <<<<"src", <<"images/", "cvr.jpg">>, "dd">>, Attr("id", "i1")>>, " />")>>

FragWrapped ==
    <<Open("p", <<>>), ZS, Text(<<"W">>), Close("z"), Void("br", <<>>, ">"), Close("p")>>

FragHeading ==
    <<Open("p", <<Attr("class", "nonindent1"), Attr("id", "h0")>>), Text(<<"H">>), Close("p")>>

FragSpace == <<WS>>

FragEmpty == <<>>

SourceFragments ==
    {FragIdP, FragP, FragAuthor, FragImg, FragWrapped, FragHeading, FragSpace, FragEmpty}

\* The elements of the source: its tags, without the z wrappers that
\* clean_html_tags removes.
SourceElements(ss) ==
    SelectSeq(Flatten(ss), LAMBDA t : IsTag(t) /\ ~IsZOpenS(t) /\ ~IsZOpenW(t))

\* The source does not use an id twice.
SourceIdsDistinct(ss) ==
    LET e == SourceElements(ss)
    IN \A i, j \in 1..Len(e) :
          (i # j /\ HasAttr(e[i].attrs, "id") /\ HasAttr(e[j].attrs, "id"))
              => AttrValue(e[i].attrs, "id") # AttrValue(e[j].attrs, "id")

InitPage ==
    /\ MainIdle
    /\ FnIdle
    /\ pg_id \in ComposerPageIds
    /\ pg_number \in PageNumbers
    /\ custom_css_exists \in BOOLEAN
    /\ cover_source_name \in {NoCover, "cvr.jpg"}
    /\ sentences \in UNION {[1..n -> SourceFragments] : n \in 0..MaxSentences}
    /\ SourceIdsDistinct(sentences)
    /\ idx = 0
    /\ element_counter = 0
    /\ html_parts = <<>>
    /\ passes_run = <<>>
    /\ ppc = "start"

SpecPage == InitPage /\ [][NextPage]_vars

(***************************************************************************)
(* generate_html_page on a copyright page, the sentences drawn from the    *)
(* paragraph styles of such a page.                                        *)
(***************************************************************************)
CrtPlain == FragP

CrtStyled == <<Open("p", <<Attr("class", "indent")>>), Text(<<"C">>), Close("p")>>

CrtSpecial == <<Open("p", <<Attr("class", "nonindent")>>), Text(<<"T">>), Close("p")>>

CrtMarker == <<Open("p", <<Attr("class", "nonindent")>>), Text(<<"Bestellers">>), Close("p")>>

CrtNbsp == <<Open("p", <<>>), Text(<<"&nbsp;">>), Close("p")>>

CopyrightFragments ==
    {CrtPlain, CrtStyled, CrtSpecial, CrtMarker, CrtNbsp, FragSpace}

InitCopyright ==
    /\ MainIdle
    /\ FnIdle
    /\ pg_id = "crt"
    /\ pg_number \in {NoPageNum, 1}
    /\ custom_css_exists = FALSE
    /\ cover_source_name = NoCover
    /\ sentences \in UNION {[1..n -> CopyrightFragments] : n \in 0..MaxParagraphs}
    /\ idx = 0
    /\ element_counter = 0
    /\ html_parts = <<>>
    /\ passes_run = <<>>
    /\ ppc = "start"

SpecCopyright == InitCopyright /\ [][NextPage]_vars

(***************************************************************************)
(* generate_html_page on copyright pages whose source holds lists and      *)
(* other blocks besides paragraphs.                                        *)
(***************************************************************************)
CrtList ==
    <<Open("ul", <<>>), Open("li", <<>>), Text(<<"a">>), Close("li"),
      Open("li", <<>>), Text(<<"b">>), Close("li"), Close("ul")>>

CrtQuote == <<Open("blockquote", <<>>), Text(<<"q">>), Close("blockquote")>>

CrtDiv == <<Open("div", <<Attr("id", "d1")>>), Text(<<"D">>), Close("div")>>

\* A paragraph whose class is not its first attribute.
CrtHeadingIdFirst ==
    <<Open("p", <<Attr("id", "h9"), Attr("class", "nonindent1")>>), Text(<<"G">>), Close("p")>>

\* A header element of the source.
CrtHeader == <<Open("header", <<>>), Text(<<"X">>), Close("header")>>

ReidFragments ==
    {CrtPlain, CrtStyled, FragHeading, CrtHeadingIdFirst, CrtList, CrtQuote, CrtDiv,
     CrtHeader}

InitReid ==
    /\ MainIdle
    /\ FnIdle
    /\ pg_id \in CopyrightPageIds
    /\ pg_number \in {NoPageNum, 1, 2}
    /\ custom_css_exists = FALSE
    /\ cover_source_name = NoCover
    /\ sentences \in UNION {[1..n -> ReidFragments] : n \in 0..MaxReidSentences}
    /\ idx = 0
    /\ element_counter = 0
    /\ html_parts = <<>>
    /\ passes_run = <<>>
    /\ ppc = "start"

SpecReid == InitReid /\ [][NextPage]_vars

(***************************************************************************)
(* generate_html_page on pages of every type, with at most one sentence.   *)
(***************************************************************************)
\* Page ids of every type: the literal ids, ids with the prefixes, and ids
\* that match no rule (contents is not the literal content).
TypedPageIds ==
    {"cvi", "cover2", "tp", "titlepage2", "crt", "copyright2", "content", "contents",
     "glossary1", "c1"}

InitTypes ==
    /\ MainIdle
    /\ FnIdle
    /\ pg_id \in TypedPageIds
    /\ pg_number \in PageNumbers
    /\ custom_css_exists \in BOOLEAN
    /\ cover_source_name = NoCover
    /\ sentences \in {<<>>} \cup {<<f>> : f \in SourceFragments}
    /\ idx = 0
    /\ element_counter = 0
    /\ html_parts = <<>>
    /\ passes_run = <<>>
    /\ ppc = "start"

SpecTypes == InitTypes /\ [][NextPage]_vars

(***************************************************************************)
(* generate_html_page on a title page, the sentences drawn from the        *)
(* headings and paragraphs of such a page.                                 *)
(***************************************************************************)
FragTitle == <<Open("h1", <<Attr("class", "title")>>), Text(<<"T">>), Close("h1")>>

FragAuthorQuoted ==
    <<Open("h1", <<Attr("id", "a2"), <<"class", <<"author">>, "ss">>>>), Text(<<"M">>), Close("h1")>>

TitleFragments == {FragTitle, FragAuthor, FragAuthorQuoted, FragP, FragSpace}

InitTitle ==
    /\ MainIdle
    /\ FnIdle
    /\ pg_id \in TitlePageIds
    /\ pg_number \in {NoPageNum, 1}
    /\ custom_css_exists = FALSE
    /\ cover_source_name = NoCover
    /\ sentences \in UNION {[1..n -> TitleFragments] : n \in 0..MaxTitleSentences}
    /\ idx = 0
    /\ element_counter = 0
    /\ html_parts = <<>>
    /\ passes_run = <<>>
    /\ ppc = "start"

SpecTitle == InitTitle /\ [][NextPage]_vars

(***************************************************************************)
(* Claims about the page loop.                                             *)
(***************************************************************************)
IsLinear(e) == e.linear = "yes"

IsPresent(e) == e.id \in pages

TocIndex(page_id) == CHOOSE i \in 1..Len(toc) : toc[i].id = page_id

TocEntryOf(page_id) == toc[TocIndex(page_id)]

\* The number of documents with a page number among the first k writes.
NumberedUpTo(k) == Cardinality({j \in 1..k : written[j].num # NoPageNum})

\* C2 as stated: at the end of the loop the i-th linear entry in play order
\* has been given page number i, and no non-linear entry has a page number.
C2_EveryLinearEntryNumbered ==
    mpc = "metadata" =>
        LET lin == SelectSeq(sorted_toc, IsLinear)
        IN /\ \A i \in 1..Len(lin) :
                \E k \in 1..Len(written) :
                    written[k].page_id = lin[i].id /\ written[k].num = i
           /\ \A k \in 1..Len(written) :
                ~IsLinear(TocEntryOf(written[k].page_id)) => written[k].num = NoPageNum

\* C2 amended: the documents written are those of the entries present in
\* Pages, in play order; the i-th linear one of them has page number i, a
\* non-linear one has none, and the counter has advanced once per numbered
\* document.
C2_PresentLinearEntriesNumbered ==
    (mpc \notin {"check", "sort"} /\ raised # InputError) =>
        LET gen == SelectSeq(SubSeq(sorted_toc, 1, loop_i - 1), IsPresent)
        IN /\ Len(written) = Len(gen)
           /\ \A k \in 1..Len(written) :
                /\ written[k].page_id = gen[k].id
                /\ written[k].num = IF IsLinear(gen[k]) THEN NumberedUpTo(k)
                                    ELSE NoPageNum
           /\ page_number = 1 + NumberedUpTo(Len(written))

\* C2 witness: a finished run that numbered two pages around an unnumbered one.
C2_Witness ==
    /\ mpc = "metadata"
    /\ Len(written) = 3
    /\ written[1].num = 1
    /\ written[2].num = NoPageNum
    /\ written[3].num = 2

\* C7: documents are written in ascending play order, ties in TOC insertion
\* order, and a generated document is written before the next one is
\* generated (at most the current entry's document is pending).
C7_WrittenInPlayOrder ==
    /\ \A a, b \in 1..Len(written) :
         a < b =>
            LET ea == TocEntryOf(written[a].page_id)
                eb == TocEntryOf(written[b].page_id)
            IN \/ PlayOrderKey(ea) < PlayOrderKey(eb)
               \/ /\ PlayOrderKey(ea) = PlayOrderKey(eb)
                  /\ TocIndex(ea.id) < TocIndex(eb.id)
    /\ mpc \in {"loop", "write"} =>
         Len(written) = Len(SelectSeq(SubSeq(sorted_toc, 1, loop_i - 1), IsPresent))
    /\ (html_content # NoDoc) <=>
         (mpc = "write" /\ html_content.page_id = sorted_toc[loop_i].id)

\* C7 witness: three documents written, the first inserted entry written last
\* and two entries of equal play order written in insertion order.
C7_Witness ==
    /\ Len(written) = 3
    /\ TocIndex(written[3].page_id) = 1
    /\ PlayOrderKey(TocEntryOf(written[1].page_id)) =
         PlayOrderKey(TocEntryOf(written[2].page_id))
    /\ html_content = NoDoc

(***************************************************************************)
(* Claims about ensure_unique_ids.                                         *)
(***************************************************************************)
\* The number of elements open at token i.
Depth(toks, i) ==
    Cardinality({j \in 1..(i - 1) : toks[j].k = "open"})
    - Cardinality({j \in 1..(i - 1) : toks[j].k = "close"})

\* Token i opens a top-level element of the allow-list.
TopLevelBlock(toks, i) ==
    /\ IsTag(toks[i])
    /\ toks[i].tag \in ElementsNeedingIds
    /\ Depth(toks, i) = 0

\* The tokens of the call's result that differ from the argument's.
IdsAssigned == {i \in 1..Len(arg.html) : res.html[i] # arg.html[i]}

\* C3 as stated: every top-level allow-listed element without an id attribute
\* receives an id page_<pageNumber>_<k> drawn from the counter, one with an id
\* is returned unchanged, and the counter returned is the counter given plus
\* the number of ids assigned.
C3_EveryTopLevelElementGetsId ==
    fpc = "called" =>
        /\ Len(res.html) = Len(arg.html)
        /\ \A i \in 1..Len(arg.html) :
             TopLevelBlock(arg.html, i) =>
                IF HasAttr(arg.html[i].attrs, "id")
                THEN res.html[i] = arg.html[i]
                ELSE \E c \in (arg.counter + 1)..res.counter :
                        res.html[i] = WithNewId(arg.html[i], PageElementId(arg.page_number, c))
        /\ res.counter = arg.counter + Cardinality(IdsAssigned)

\* C5: ensure_unique_ids applied to its own output, with the same page number
\* and any counter, returns the markup unchanged and the counter it was given.
C5_SecondPassIsNoOp ==
    fpc = "recalled" => res2.html = res.html /\ res2.counter = res2.given

\* C5 witness: the first call assigned two ids and the second call was given
\* another counter than the first one returned.
C5_Witness ==
    /\ fpc = "recalled"
    /\ res.counter = arg.counter + 2
    /\ res2.given # res.counter
    /\ res2.html = res.html

(***************************************************************************)
(* Claims about the text passes.                                           *)
(***************************************************************************)
\* The number of aria-hidden attributes of a tag.
AriaHiddenCount(t) ==
    Cardinality({a \in 1..Len(t.attrs) : t.attrs[a][1] = "aria-hidden"})

Runs(t) ==
    {<<"", t.txt>>} \cup {<<t.attrs[a][1], t.attrs[a][2]>> : a \in 1..Len(t.attrs)}

\* What C9 says a run of atoms ends as.
C9_Expected(name, v, cover) ==
    LET rewritten == \/ v[1] = "bk/media/"
                     \/ name = "src" /\ v[1] = "images/"
        dir == IF rewritten THEN "../images/" ELSE v[1]
        file == IF cover # "" /\ dir = "../images/" /\ v[2] = cover
                THEN "cover.jpg" ELSE v[2]
    IN <<dir, file>>

\* C9: every <inputDirName>/media/ becomes ../images/, a src that starts with
\* images/ starts with ../images/, and with a known cover source name the
\* reference to it, after these rewrites, names cover.jpg, while every other
\* file keeps its name.
C9_PathsRewritten ==
    fpc = "called" =>
        /\ Len(res.html) = Len(arg.html)
        /\ \A i \in 1..Len(arg.html) :
             /\ Len(res.html[i].attrs) = Len(arg.html[i].attrs)
             /\ Len(arg.html[i].txt) = 2 =>
                  res.html[i].txt = C9_Expected("", arg.html[i].txt, arg.cover)
             /\ \A a \in 1..Len(arg.html[i].attrs) :
                  res.html[i].attrs[a][2] =
                     C9_Expected(arg.html[i].attrs[a][1], arg.html[i].attrs[a][2], arg.cover)
        /\ \A i \in 1..Len(res.html) : \A r \in Runs(res.html[i]) :
             \A j \in 1..Len(r[2]) : r[2][j] # "bk/media/"

\* C9 witness: with cover source cvr.jpg, bk/media/cvr.jpg ended as
\* ../images/cover.jpg and images/foo.jpg as ../images/foo.jpg.
C9_Witness ==
    /\ fpc = "called"
    /\ arg.cover = "cvr.jpg"
    /\ Len(arg.html) = 2
    /\ arg.html[1] = Void("img", <<<<"src", <<"bk/media/", "cvr.jpg">>, "dd">>>>, " />")
    /\ res.html[1] = Void("img", <<<<"src", <<"../images/", "cover.jpg">>, "dd">>>>, " />")
    /\ arg.html[2] = Void("img", <<<<"src", <<"images/", "foo.jpg">>, "dd">>>>, " />")
    /\ res.html[2] = Void("img", <<<<"src", <<"../images/", "foo.jpg">>, "dd">>>>, " />")

\* The wrapper tags of the tag stripper.
C10_Wrappers ==
    {[k |-> "open", tag |-> "z", attrs |-> <<<<"class", <<c>>, q>>>>, txt |-> <<>>, end |-> ">"] :
        c \in {"s", "w"}, q \in {"ss", "dd"}}
    \cup {[k |-> "close", tag |-> "z", attrs |-> <<>>, txt |-> <<>>, end |-> ">"]}

C10_NotWrapper(t) == t \notin C10_Wrappers

C10_NotTag(t) == t.k \in {"text", "ws", "nl"}

\* <z class='s'>Hello</z> <z class="w">World</z>
C10_Example ==
    <<ZS, Text(<<"Hello">>), Close("z"), WS, ZW, Text(<<"World">>), Close("z")>>

\* C10: clean_html_tags returns the fragment without its wrapper tags and
\* with every text and whitespace token where it was; extract_text_from_html
\* gives Hello World for the example and never a tag, two whitespace
\* characters in a row, or whitespace at either end.
C10_WrappersStripped ==
    /\ fpc \in {"called", "recalled"} =>
         /\ \A i \in 1..Len(res.html) : res.html[i] \notin C10_Wrappers
         /\ Len(res.html) = Len(SelectSeq(arg.html, C10_NotWrapper))
         /\ SelectSeq(res.html, C10_NotTag) = SelectSeq(arg.html, C10_NotTag)
    /\ fpc = "recalled" =>
         /\ arg.html = C10_Example =>
              res2.html = <<Text(<<"Hello">>), WS, Text(<<"World">>)>>
         /\ res2.html # <<>>
         /\ res2.html # NoText =>
              /\ \A i \in 1..Len(res2.html) : res2.html[i].k \in {"text", "ws"}
              /\ \A i \in 1..(Len(res2.html) - 1) :
                   ~(res2.html[i].k = "ws" /\ res2.html[i + 1].k = "ws")
              /\ res2.html[1].k = "text"
              /\ res2.html[Len(res2.html)].k = "text"

\* C10 witness: both functions were applied to the example fragment.
C10_Witness ==
    /\ fpc = "recalled"
    /\ arg.html = C10_Example
    /\ res.html = <<Text(<<"Hello">>), WS, Text(<<"World">>)>>
    /\ res2.html = res.html

(***************************************************************************)
(* Claims about the page composer.                                         *)
(***************************************************************************)
\* The elements of the document built so far, in document order.
PageElements == SelectSeq(Flatten(html_parts), IsTag)

IdOf(t) == AttrValue(t.attrs, "id")

\* C1: in a finished page document no two elements carry the same id: an
\* id assigned as page_<pageNumber>_<k> differs from every other assigned
\* id and from every id the source fragments brought along.
C1_NoTwoElementsShareAnId ==
    ppc = "done" =>
        \A i, j \in 1..Len(PageElements) :
            (i # j /\ HasAttr(PageElements[i].attrs, "id")
                   /\ HasAttr(PageElements[j].attrs, "id"))
                => IdOf(PageElements[i]) # IdOf(PageElements[j])

C4_BodyElements ==
    SubSeq(PageElements,
           Len(SelectSeq(Flatten(StartLines(pg_id, pg_number, custom_css_exists)), IsTag)) + 1,
           Len(PageElements))

C6_ParagraphLine(line) ==
    LET s == Strip(line)
    IN /\ Len(s) >= 2
       /\ IsOpenP(s[1])
       /\ s[Len(s)] = Close("p")
       /\ \A x \in 2..(Len(s) - 1) : s[x].tag # "p"

C6_Content(line) == LET s == Strip(line) IN Strip(SubSeq(s, 2, Len(s) - 1))

\* A list-item candidate: a paragraph whose class does not start with
\* nonindent or crt and whose content is neither empty nor a non-breaking
\* space.
C6_Candidate(line) ==
    /\ C6_ParagraphLine(line)
    /\ LET attrs == Strip(line)[1].attrs
       IN \A a \in 1..Len(attrs) :
             attrs[a][1] = "class" => attrs[a][2][1] \notin SpecialClassNames
    /\ C6_Content(line) # <<>>
    /\ C6_Content(line) \notin NonBreakingSpaces

C6_CandidateAt(lines, i) == i \in 1..Len(lines) /\ C6_Candidate(lines[i])

\* What line i is replaced by: a candidate with a candidate neighbour
\* becomes a list item, the first of the run preceded by the opening of the
\* list, the last followed by its closing; any other line stays.
C6_Replacement(lines, i) ==
    IF C6_CandidateAt(lines, i)
       /\ (C6_CandidateAt(lines, i - 1) \/ C6_CandidateAt(lines, i + 1))
    THEN (IF C6_CandidateAt(lines, i - 1) THEN <<>> ELSE <<UlOpenLine>>)
         \o <<LiLine(C6_Content(lines[i]))>>
         \o (IF C6_CandidateAt(lines, i + 1) THEN <<>> ELSE <<UlCloseLine>>)
    ELSE <<lines[i]>>

C6_Expected(lines) == Flatten([i \in 1..Len(lines) |-> C6_Replacement(lines, i)])

C6_WithoutIds(lines) ==
    [i \in 1..Len(lines) |->
        [x \in 1..Len(lines[i]) |->
            [lines[i][x] EXCEPT !.attrs = SelectSeq(@, LAMBDA a : a[1] # "id")]]]

\* C6: when the copyright page is restructured, every maximal run of two
\* or more consecutive candidate paragraph lines (of the lines left after
\* the heading promotion) becomes one list with one item per paragraph, in
\* order, and every other line, a lone candidate included, stays as it is;
\* only ids differ.
C6_RunsBecomeLists ==
    [][(ppc = "sentences" /\ ppc' = "restructured" /\ pg_id \in CopyrightPageIds)
          => C6_WithoutIds(html_parts')
               = C6_WithoutIds(C6_Expected(CopyrightLines(JoinLines(html_parts))))]_vars

\* A restructured copyright page: two candidates became one list of two
\* items, the candidate after the styled paragraph stayed a paragraph.
C6_Witness ==
    /\ ppc = "restructured"
    /\ pg_id = "crt"
    /\ pg_number = 1
    /\ sentences = <<CrtPlain, CrtStyled, CrtSpecial, CrtPlain>>
    /\ SubSeq(html_parts, Len(html_parts) - 5, Len(html_parts)) =
         << Indent(<<Open("ul", <<Attr("class", "bestellers_list"), Attr("id", "page_1_2")>>)>>),
            Indent(<<Open("li", <<Attr("id", "page_1_2_1")>>), Text(<<"B">>), Close("li")>>),
            Indent(<<Open("li", <<Attr("id", "page_1_2_2")>>), Text(<<"C">>), Close("li")>>),
            Indent(<<Close("ul")>>),
            Indent(<<Open("p", <<Attr("class", "nonindent"), Attr("id", "page_1_3")>>),
                     Text(<<"T">>), Close("p")>>),
            Indent(<<Open("p", <<Attr("id", "page_1_4")>>), Text(<<"B">>), Close("p")>>) >>

(***************************************************************************)
(* Claims about the page type.                                             *)
(***************************************************************************)
\* The section element of the page.
C11_Section ==
    LET e == PageElements
    IN e[CHOOSE i \in 1..Len(e) : e[i].tag = "section"]

\* The page type the classification rule gives each page id.
C11_TypeOf(pid) ==
    CASE pid \in {"cvi", "cover2"} -> "frontmatter cover"
      [] pid \in {"tp", "titlepage2"} -> "frontmatter titlepage"
      [] pid \in {"crt", "copyright2"} -> "frontmatter copyright"
      [] pid = "content" -> "frontmatter content"
      [] pid = "glossary1" -> "glossary"
      [] pid \in {"contents", "c1"} -> "bodymatter chapter"

\* C11: the section of every page carries the page type its id has by the
\* rule (cover, title page, copyright, content, glossary, else chapter);
\* its class is glossary on a glossary page and page-container on every
\* other page.
C11_PageTypeByIdentifier ==
    ppc \in {"sentences", "restructured", "done"} =>
        /\ AttrValue(C11_Section.attrs, "epub:type") = <<C11_TypeOf(pg_id)>>
        /\ AttrValue(C11_Section.attrs, "class") =
              <<IF pg_id = "glossary1" THEN "glossary" ELSE "page-container">>

\* A finished glossary page with the glossary type and class.
C11_Witness ==
    /\ ppc = "done"
    /\ pg_id = "glossary1"
    /\ AttrValue(C11_Section.attrs, "epub:type") = <<"glossary">>
    /\ AttrValue(C11_Section.attrs, "class") = <<"glossary">>

(***************************************************************************)
(* Claims about the title page.                                            *)
(***************************************************************************)
\* The lines the sentences contributed to the document.
C12_SentenceLines ==
    SubSeq(html_parts,
           Len(StartLines(pg_id, pg_number, custom_css_exists)) + 1,
           Len(html_parts) - Len(ClosingLines))

\* A sentence with its author heading turned into a paragraph: the tag of
\* the opening and of the closing tag change, nothing else.
C12_Demoted(frag) ==
    IF frag # <<>> /\ frag[1].k = "open" /\ frag[1].tag = "h1"
       /\ <<"author">> \in {frag[1].attrs[a][2] : a \in {b \in 1..Len(frag[1].attrs) : frag[1].attrs[b][1] = "class"}}
    THEN [i \in 1..Len(frag) |->
            IF i \in {1, Len(frag)} THEN [frag[i] EXCEPT !.tag = "p"] ELSE frag[i]]
    ELSE frag

C12_IsH1(t) == t.k = "open" /\ t.tag = "h1"

C13_LaterPresentEntries ==
    {i \in (loop_i + 1)..Len(sorted_toc) : sorted_toc[i].id \in pages}

\* C13: once generating or writing a page has raised, the conversion has
\* stopped at that page: no further document is written, the loop does not
\* move on to a later entry, no metadata document is created and no
\* archive is produced.
C13_FailFast ==
    [][raised' = PageError =>
          /\ written' = written
          /\ loop_i' = loop_i
          /\ page_number' = page_number
          /\ html_content' = NoDoc
          /\ ~metadata_created'
          /\ ~epub_created']_vars

\* A page raised after a document had been written and while a later page
\* of the play order was still to be generated.
C13_Witness ==
    /\ raised = PageError
    /\ mpc = "error"
    /\ Len(written) >= 1
    /\ C13_LaterPresentEntries # {}
    /\ ~metadata_created
    /\ ~epub_created

\* The entries the loop has gone past whose page is absent from pages.
C14_AbsentEntriesReached ==
    {i \in 1..(loop_i - 1) : i <= Len(sorted_toc) /\ sorted_toc[i].id \notin pages}

\* C14 as stated: when the input is missing, or the loop has reached an
\* entry whose page is absent, the run has ended with an error and no
\* archive is produced.
C14_MissingInputIsFatal ==
    /\ (input # "ok" /\ mpc # "check") => (raised # NoError /\ ~epub_created)
    /\ C14_AbsentEntriesReached # {} => (raised # NoError /\ ~epub_created)

\* C14: a missing input directory or content file ends the run with
\* FileNotFoundError before anything is read or written; an entry of the
\* play order whose page is absent from pages is passed over without an
\* error, a document or a page number, and the run goes on.
C14_MissingInputStopsAbsentPageSkipped ==
    /\ []((input # "ok" /\ mpc # "check") =>
            /\ raised = InputError
            /\ mpc = "error"
            /\ sorted_toc = <<>>
            /\ written = <<>>
            /\ ~metadata_created
            /\ ~epub_created)
    /\ [][(mpc = "loop" /\ loop_i <= Len(sorted_toc)
            /\ sorted_toc[loop_i].id \notin pages) =>
             /\ raised' = NoError
             /\ mpc' = "loop"
             /\ loop_i' = loop_i + 1
             /\ written' = written
             /\ page_number' = page_number]_vars

\* A run that passed over an absent page and produced the archive.
C14_Witness ==
    /\ mpc = "done"
    /\ epub_created
    /\ raised = NoError
    /\ C14_AbsentEntriesReached # {}
    /\ Len(written) >= 1

(***************************************************************************)
(* Claims about the order of the passes.                                   *)
(***************************************************************************)
\* The calls made for one non-empty sentence, in the order found.
C15_CallsPerSentence ==
    <<"fix_image_paths", "clean_html_tags", "add_aria_hidden_to_br_hr">>
    \o (IF pg_number # NoPageNum THEN <<"ensure_unique_ids">> ELSE <<>>)

\* The number of non-empty sentences the loop has gone through.
C15_SentencesDone ==
    Cardinality({k \in 1..(idx - 1) : k <= Len(sentences) /\ sentences[k] # <<>>})

RECURSIVE C15_Repeat(_, _)
C15_Repeat(calls, n) == IF n = 0 THEN <<>> ELSE calls \o C15_Repeat(calls, n - 1)

\* C15 as stated: the tag stripper is called right before every call of
\* the path rewriter, and on a copyright page the restructurer is called
\* before every call of the id assigner.
C15_StripThenPathsRestructureBeforeIds ==
    /\ \A i \in 1..Len(passes_run) :
          passes_run[i] = "fix_image_paths" =>
              i > 1 /\ passes_run[i - 1] = "clean_html_tags"
    /\ \A i, j \in 1..Len(passes_run) :
          (passes_run[i] = "convert_copyright_structure"
             /\ passes_run[j] = "ensure_unique_ids") => i < j

\* C15: for every non-empty sentence the calls are fix_image_paths,
\* clean_html_tags, add_aria_hidden_to_br_hr and, on a page with a page
\* number, ensure_unique_ids, in this order; on a copyright page
\* convert_copyright_structure is called once, after the calls for the
\* last sentence; the closing lines come last.
C15_PassOrder ==
    ppc \in {"sentences", "restructured", "done"} =>
        passes_run =
            C15_Repeat(C15_CallsPerSentence, C15_SentencesDone)
            \o (IF ppc \in {"restructured", "done"} /\ pg_id \in CopyrightPageIds
                THEN <<"convert_copyright_structure">> ELSE <<>>)
            \o (IF ppc = "done" THEN <<"closing lines">> ELSE <<>>)

\* A finished copyright page with a page number and two sentences: the id
\* assigner has been called twice before the restructurer.
C15_Witness ==
    /\ ppc = "done"
    /\ pg_id = "crt"
    /\ pg_number = 1
    /\ Len(sentences) = 2
    /\ passes_run =
         <<"fix_image_paths", "clean_html_tags", "add_aria_hidden_to_br_hr", "ensure_unique_ids",
           "fix_image_paths", "clean_html_tags", "add_aria_hidden_to_br_hr", "ensure_unique_ids",
           "convert_copyright_structure", "closing lines">>

(***************************************************************************)
(* Claims about the elements ensure_unique_ids reaches.                    *)
(***************************************************************************)
\* Token i opens an allow-listed element that is inside another element.
C16_NestedBlock(toks, i) ==
    /\ IsTag(toks[i])
    /\ toks[i].tag \in ElementsNeedingIds
    /\ Depth(toks, i) > 0

\* An allow-listed element nested in another element is returned as it
\* was, also after a space.
C16_NestedNeverGetsId ==
    fpc = "called" =>
        \A i \in 1..Len(arg.html) :
            C16_NestedBlock(arg.html, i) => res.html[i] = arg.html[i]

\* Every top-level allow-listed element without an id is returned with an
\* id attribute, also right after a closing tag.
C16_TopLevelAlwaysGetsId ==
    fpc = "called" =>
        \A i \in 1..Len(arg.html) :
            (TopLevelBlock(arg.html, i) /\ ~HasAttr(arg.html[i].attrs, "id")) =>
                HasAttr(res.html[i].attrs, "id")

\* C16 as stated: ensure_unique_ids assigns ids to the top-level block
\* elements only: a nested allow-listed element never receives an id, and
\* every top-level allow-listed element without an id receives one.
C16_IdsOnlyAtTopLevel ==
    C16_NestedNeverGetsId /\ C16_TopLevelAlwaysGetsId

(***************************************************************************)
(* Claims about the ids of the copyright page.                             *)
(***************************************************************************)
\* The elements the claim names: headings, paragraphs, containers, lists
\* and list items.
C17_IsBodyElement(t) ==
    t.k = "open" /\ t.tag \in Headings \cup {"p", "div", "section", "ul", "li"}

C17_Body == SelectSeq(PageElements, C17_IsBodyElement)

C17_IsNumbered(t) == t.tag # "li"

\* The elements numbered by the page: all but the list items.
C17_Numbered == SelectSeq(C17_Body, C17_IsNumbered)

\* The position in C17_Body of the list the item at x belongs to, 0 when
\* no list precedes it.
C17_ListOf(x) ==
    IF \E u \in 1..(x - 1) : C17_Body[u].tag = "ul"
    THEN CHOOSE u \in 1..(x - 1) :
            /\ C17_Body[u].tag = "ul"
            /\ \A v \in (u + 1)..(x - 1) : C17_Body[v].tag # "ul"
    ELSE 0

\* C17 as stated: on a restructured copyright page with a page number the
\* n-th heading, paragraph, container or list in document order carries the
\* id page_<pageNumber>_<n>, and the j-th item of a list carries the
\* list's id followed by _<j>.
C17_SequentialIdsAfterRestructure ==
    (ppc \in {"restructured", "done"} /\ pg_id \in CopyrightPageIds
       /\ pg_number # NoPageNum) =>
        /\ \A n \in 1..Len(C17_Numbered) :
              IdOf(C17_Numbered[n]) = <<PageElementId(pg_number, n)>>
        /\ \A x \in 1..Len(C17_Body) :
              C17_Body[x].tag = "li" =>
                 LET u == C17_ListOf(x)
                     j == Cardinality({v \in (u + 1)..x : C17_Body[v].tag = "li"})
                 IN /\ u # 0
                    /\ IdOf(C17_Body[x]) = <<IdOf(C17_Body[u])[1] \o "_" \o ToString(j)>>

(***************************************************************************)
(* Claims about the heading promotion of the copyright page.               *)
(***************************************************************************)
\* A sentence that is one paragraph of the class.
C18_ParagraphOfClass(frag, cls) ==
    /\ Len(frag) >= 2
    /\ IsOpenP(frag[1])
    /\ AttrValue(frag[1].attrs, "class") = <<cls>>
    /\ frag[Len(frag)] = Close("p")

\* The paragraph's own content contains the marker.
C18_OwnMarker(frag) == \E x \in 2..(Len(frag) - 1) : HasMarker(frag[x])

\* The paragraph as a heading: the tag changes, the class is dropped, the
\* content stays.
C18_Heading(frag, tag) ==
    <<Open(tag, SelectSeq(frag[1].attrs, LAMBDA a : a[1] # "class"))>>
    \o SubSeq(frag, 2, Len(frag) - 1) \o <<Close(tag)>>

\* The lines of the document, ids dropped.
C18_Lines == {C6_WithoutIds(html_parts)[i] : i \in 1..Len(html_parts)}

C18_IsH2(t) == t.k = "open" /\ t.tag = "h2"

\* C18 as stated: on a restructured copyright page a nonindent paragraph
\* is an h2 when its own content contains the marker and otherwise is the
\* paragraph it was, and the page has no other h2.
C18_H2IffOwnMarker ==
    (ppc \in {"restructured", "done"} /\ pg_id \in CopyrightPageIds) =>
        /\ \A k \in 1..Len(sentences) :
              C18_ParagraphOfClass(sentences[k], "nonindent") =>
                 IF C18_OwnMarker(sentences[k])
                 THEN C6_WithoutIds(<<Indent(C18_Heading(sentences[k], "h2"))>>)[1] \in C18_Lines
                 ELSE C6_WithoutIds(<<Indent(sentences[k])>>)[1] \in C18_Lines
        /\ Len(SelectSeq(PageElements, C18_IsH2))
             = Cardinality({k \in 1..Len(sentences) :
                              /\ C18_ParagraphOfClass(sentences[k], "nonindent")
                              /\ C18_OwnMarker(sentences[k])})

C19_IsH1(t) == t.k = "open" /\ t.tag = "h1"

C19_ClassFirst(frag) == frag[1].attrs[1][1] = "class"

C20_SourceSoFar ==
    SourceElements(SubSeq(sentences, 1, IF idx - 1 < Len(sentences) THEN idx - 1 ELSE Len(sentences)))

\* The positions of the body elements that carry an id the source element
\* did not have.
C20_Assigned(body, src) ==
    {i \in 1..Len(body) : HasAttr(body[i].attrs, "id") /\ ~HasAttr(src[i].attrs, "id")}

\* The slots used before the first sentence: one for the page break marker
\* of a numbered page, one for the hidden heading of a cover page.
C20_Consumed ==
    (IF pg_number # NoPageNum THEN 1 ELSE 0) + (IF pg_id \in CoverPageIds THEN 1 ELSE 0)

\* C20: during the loop over the sentences of any page, and in the finished
\* document of a page that is not a copyright page, the counter is the
\* number of slots consumed before the first sentence (from 0: 1 for the
\* page break marker, 1 for the cover heading) plus the number of ids
\* assigned, and the n-th id assigned, in document order, is
\* page_<N>_<consumed + n>.
C20_CounterPerPage ==
    (ppc = "sentences" \/ (ppc \in {"restructured", "done"} /\ pg_id \notin CopyrightPageIds)) =>
        LET all == PageElements
            first == Len(SelectSeq(Flatten(StartLines(pg_id, pg_number, custom_css_exists)),
                                   IsTag))
            body == SubSeq(all, first + 1, Len(all))
            src == C20_SourceSoFar
            assigned == IF Len(body) = Len(src) THEN C20_Assigned(body, src) ELSE {}
        IN /\ Len(body) = Len(src)
           /\ element_counter = C20_Consumed + Cardinality(assigned)
           /\ pg_number = NoPageNum => assigned = {}
           /\ \A i \in assigned :
                 IdOf(body[i]) =
                    <<PageElementId(pg_number,
                                    C20_Consumed + Cardinality({j \in assigned : j <= i}))>>
           /\ (pg_number # NoPageNum /\ pg_id \in CoverPageIds) =>
                 /\ first >= 1
                 /\ all[first].tag = "h1"
                 /\ IdOf(all[first]) = <<PageElementId(pg_number, 2)>>

\* A finished cover page with number 1 and two paragraphs without ids: the
\* marker took slot 1, the hidden heading slot 2, the paragraphs 3 and 4.
C20_Witness ==
    /\ ppc = "done"
    /\ pg_id = "cvi"
    /\ pg_number = 1
    /\ sentences = <<FragP, FragP>>
    /\ element_counter = 4
    /\ C4_BodyElements = <<Open("p", <<Attr("id", "page_1_3")>>),
                           Open("p", <<Attr("id", "page_1_4")>>)>>

(***************************************************************************)
(* Claims about the form of the br and hr elements.                        *)
(***************************************************************************)
\* The attributes of a tag other than aria-hidden, in their order.
C21_OtherAttrs(t) == SelectSeq(t.attrs, LAMBDA a : a[1] # "aria-hidden")

C21_SelfClosing(t) == t.end \in {"/>", " />"}

C21_BrOrHr(t) == t.k = "void" /\ t.tag \in {"br", "hr"}

MaxTolerateToks == 3

\* Tags the patterns of clean_html_tags match.
RecognizedTags ==
    {ZS, ZW, Close("z"),
     Open("a", <<<<"href", <<BookPrefix, "c1", ".htm">>, "dd">>>>)}

\* Tags of other shapes: a z tag of another class, with a second
\* attribute, without attributes; a link whose href is not the legacy
\* name in double quotes.
OtherTags ==
    {Open("z", <<Attr("class", "x")>>),
     Open("z", <<Attr("class", "s"), Attr("id", "q")>>),
     Open("z", <<>>),
     Open("a", <<<<"href", <<"c1", ".htm">>, "dd">>>>),
     Open("a", <<<<"href", <<BookPrefix, "c1", ".htm">>, "ss">>>>),
     Open("a", <<<<"href", <<BookPrefix, "c1", ".html">>, "dd">>>>),
     Close("a")}

TolerateTokens == RecognizedTags \cup OtherTags \cup {Text(<<"w">>)}

TolerateFragments(max) == UNION {[1..n -> TolerateTokens] : n \in 0..max}

InitTolerate ==
    /\ MainIdle
    /\ PageIdle
    /\ arg \in [html : TolerateFragments(MaxTolerateToks)]
    /\ res = "idle"
    /\ res2 = "idle"
    /\ fpc = "call"

SpecTolerate == InitTolerate /\ [][NextStrip]_vars

(***************************************************************************)
(* copy_media_files: the images of the media folder and the cover image.   *)
(***************************************************************************)
\* File names of the media folder, in the order sorted() gives them.
SortedNames ==
    <<"Cover2.PNG", "a.jpg", "cover.jpg", "cvr.jpg", "notes.css", "tp.jpg", "z.jpeg">>

MediaNames == {SortedNames[i] : i \in 1..Len(SortedNames)}

\* name.lower()
Lower(name) == IF name = "Cover2.PNG" THEN "cover2.png" ELSE name

\* file.suffix.lower()
SuffixLower(name) ==
    CASE name = "Cover2.PNG" -> ".png"
      [] name \in {"a.jpg", "cover.jpg", "cvr.jpg", "tp.jpg"} -> ".jpg"
      [] name = "z.jpeg" -> ".jpeg"
      [] name = "notes.css" -> ".css"

ImageSuffixes == {".jpg", ".jpeg", ".png", ".gif", ".svg", ".webp"}

\* 'cvr' in lower or 'cover' in lower
LooksLikeCover(name) == Lower(name) \in {"cover2.png", "cover.jpg", "cvr.jpg"}

\* data['CoverImage']['media_info']['src']: absent, or a path.
NoCoverSrc == "no src"

CoverSrcValues == {NoCoverSrc, "media/cvr.jpg", "media/gone.jpg", "a.jpg"}

\* os.path.basename(cover_src)
Basename(path) ==
    CASE path = "media/cvr.jpg" -> "cvr.jpg"
      [] path = "media/gone.jpg" -> "gone.jpg"
      [] path = "a.jpg" -> "a.jpg"

\* No cover source was found.
NoSource == <<"none", "">>

\* Lines 1262-1280: the names appended to copied_files.
CopiedFiles(media, cover_src) ==
    {f \in media :
        /\ SuffixLower(f) \in ImageSuffixes
        /\ ~(cover_src # NoCoverSrc /\ f = Basename(cover_src))}

\* sorted(copied_files)
SortedCopied(copied) == SelectSeq(SortedNames, LAMBDA n : n \in copied)

\* The first name of the sorted list that passes the test, as a path in
\* the images folder; NoSource when there is none.
FirstCopied(copied, Test(_)) ==
    LET hits == SelectSeq(SortedCopied(copied), Test)
    IN IF hits = <<>> THEN NoSource ELSE <<"images", hits[1]>>

\* Lines 1285-1291: the file the CoverImage entry names, in the media folder.
ExplicitCover(media, cover_src) ==
    IF cover_src # NoCoverSrc /\ Basename(cover_src) \in media
    THEN <<"media", Basename(cover_src)>>
    ELSE NoSource

IsTpJpg(name) == Lower(name) = "tp.jpg"

IsJpg(name) == SuffixLower(name) = ".jpg"

\* Mutant: the first JPEG is tried before tp.jpg.
CoverSourcePath_JpgFirst(media, cover_src) ==
    LET copied == CopiedFiles(media, cover_src)
        tries == <<ExplicitCover(media, cover_src),
                   FirstCopied(copied, LooksLikeCover),
                   FirstCopied(copied, IsJpg),
                   FirstCopied(copied, IsTpJpg)>>
        found == SelectSeq(tries, LAMBDA t : t # NoSource)
    IN IF found = <<>> THEN NoSource ELSE found[1]

\* Lines 1282-1313: cover_source_path after the four tries.
CoverSourcePath(media, cover_src) ==
    LET copied == CopiedFiles(media, cover_src)
        tries == <<ExplicitCover(media, cover_src),
                   FirstCopied(copied, LooksLikeCover),
                   FirstCopied(copied, IsTpJpg),
                   FirstCopied(copied, IsJpg)>>
        found == SelectSeq(tries, LAMBDA t : t # NoSource)
    IN IF found = <<>> THEN NoSource ELSE found[1]

\* Lines 1315-1328: the images folder after the call, each file with the
\* file it is a copy of; cover.jpg and cover_thumbnail.jpg are created from
\* the cover source unless a file of that name was copied.
ImagesFolder(media, cover_src) ==
    LET copied == CopiedFiles(media, cover_src)
        source == CoverSourcePath(media, cover_src)
        created == IF source = NoSource THEN {} ELSE {"cover.jpg", "cover_thumbnail.jpg"}
    IN [f \in copied \cup created |-> IF f \in copied THEN <<"media", f>> ELSE source]

CopyMediaFiles(media, cover_src) ==
    [copied_files |-> CopiedFiles(media, cover_src),
     cover_source_path |-> CoverSourcePath(media, cover_src),
     images |-> ImagesFolder(media, cover_src),
     warning |-> CoverSourcePath(media, cover_src) = NoSource]

\* The media folder (empty when it does not exist) and the CoverImage entry.
InitCover ==
    /\ MainIdle
    /\ PageIdle
    /\ arg \in [media : SUBSET MediaNames, cover_src : CoverSrcValues]
    /\ res = "idle"
    /\ res2 = "idle"
    /\ fpc = "call"

CallCopyMediaFiles ==
    /\ fpc = "call"
    /\ res' = CopyMediaFiles(arg.media, arg.cover_src)
    /\ fpc' = "called"
    /\ UNCHANGED <<arg, res2, mainVars, pageVars>>

NextCover == CallCopyMediaFiles

SpecCover == InitCover /\ [][NextCover]_vars

(***************************************************************************)
(* The list-clustering scan of convert_copyright_structure, one iteration  *)
(* of the outer loop per step.                                             *)
(***************************************************************************)
MaxClusterLines == 3

\* A sentence with two paragraphs.
FragTwo == <<Open("p", <<>>), Text(<<"D">>), Close("p"),
             Open("p", <<>>), Text(<<"E">>), Close("p")>>

\* A heading line, as the promotion leaves it.
HeadingLine == <<Open("h1", <<>>), Text(<<"H">>), Close("h1")>>

ClusterInputLines ==
    {Indent(FragP), Indent(CrtStyled), Indent(CrtSpecial), Indent(CrtNbsp), Indent(FragTwo),
     Indent(HeadingLine), Indent(FragImg), <<>>}

ClusterInputs(max) == UNION {[1..n -> ClusterInputLines] : n \in 0..max}

\* Lines 405-407: lines, result_lines = [], i = 0 (here the first line is 1).
InitCluster ==
    /\ MainIdle
    /\ PageIdle
    /\ arg \in [lines : ClusterInputs(MaxClusterLines)]
    /\ res = [i |-> 1, result_lines |-> <<>>]
    /\ res2 = "idle"
    /\ fpc = "loop"

\* Lines 409-452: one iteration of while i < len(lines).
ClusterIteration ==
    /\ fpc = "loop"
    /\ res.i <= Len(arg.lines)
    /\ LET list_items == ListItems(arg.lines, res.i)
       IN res' = [i |-> NextIndex(res.i, list_items),
                  result_lines |-> res.result_lines
                                      \o IterationLines(arg.lines, res.i, list_items)]
    /\ UNCHANGED <<arg, res2, fpc, mainVars, pageVars>>

\* The loop condition fails: the scan is over.
ClusterExit ==
    /\ fpc = "loop"
    /\ res.i > Len(arg.lines)
    /\ fpc' = "called"
    /\ UNCHANGED <<arg, res, res2, mainVars, pageVars>>

NextCluster == ClusterIteration \/ ClusterExit

\* The loop keeps running until its condition fails.
SpecCluster == InitCluster /\ [][NextCluster]_vars /\ WF_vars(NextCluster)

(***************************************************************************)
(* create_content_opf: the manifest and the spine.                         *)
(***************************************************************************)
MaxOpfToc == 3

OpfIds == {"cvi", "tp", "crt", "content", "toc", "c1"}

OpfEntries == [id : OpfIds, playOrder : PlayOrderValues, linear : LinearValues]

OpfTocs(max) ==
    {t \in UNION {[1..n -> OpfEntries] : n \in 0..max} :
        \A a, b \in 1..Len(t) : a # b => t[a].id # t[b].id}

\* Lines 824-850: css, the navigation document, the contents page when the
\* TOC has neither a content nor a toc entry, the NCX, the cover images.
FixedManifestItems(t) ==
    LET has_content_in_toc == \E k \in 1..Len(t) : t[k].id \in {"content", "toc"}
    IN <<[id |-> "css", href |-> "css/styles.css"],
         [id |-> "toc", href |-> "xhtml/toc.xhtml"]>>
       \o (IF has_content_in_toc THEN <<>>
           ELSE <<[id |-> "content", href |-> "xhtml/content.xhtml"]>>)
       \o <<[id |-> "ncx", href |-> "toc.ncx"],
            [id |-> "cover-image", href |-> "images/cover.jpg"],
            [id |-> "thumbnailcover-image", href |-> "images/cover_thumbnail.jpg"]>>

\* img_file.stem
Stem(name) ==
    CASE name = "a.jpg" -> "a"
      [] name = "cover.jpg" -> "cover"
      [] name = "cvr.jpg" -> "cvr"
      [] name = "tp.jpg" -> "tp"

\* Lines 853-858: one item for each .jpg of the media folder that is not
\* the cover source.
ImageManifestItems(jpgs) ==
    LET names == SelectSeq(SortedNames, LAMBDA n : n \in jpgs)
    IN [k \in 1..Len(names) |->
          [id |-> "img-" \o Stem(names[k]), href |-> "images/" \o names[k]]]

\* Lines 901-915: the manifest id of an entry.
ManifestId(page_id) == IF page_id \in {"content", "toc"} THEN "content" ELSE page_id

\* Lines 897-915: the file of an entry.
OpfHtmlFile(page_id) ==
    IF page_id \in {"content", "toc"} THEN "content.xhtml" ELSE HtmlFilename(page_id)

\* Lines 894-919: one manifest item for each entry of the sorted TOC.
PageManifestItems(t) ==
    LET st == SortedByPlayOrder(t)
    IN [k \in 1..Len(st) |->
          [id |-> ManifestId(st[k].id), href |-> "xhtml/" \o OpfHtmlFile(st[k].id)]]

\* Lines 918-919: one itemref for each linear entry of the sorted TOC.
PageSpineItems(t) ==
    LET st == SelectSeq(SortedByPlayOrder(t), LAMBDA e : e.linear = "yes")
    IN [k \in 1..Len(st) |-> ManifestId(st[k].id)]

\* spine_items.insert(index, item)
InsertAt(s, index, item) == SubSeq(s, 1, index) \o <<item>> \o SubSeq(s, index + 1, Len(s))

\* The place after the first itemref with the id, 0 when there is none.
AfterFirst(s, id) ==
    IF \E i \in 1..Len(s) : s[i] = id
    THEN CHOOSE i \in 1..Len(s) : s[i] = id /\ \A x \in 1..(i - 1) : s[x] # id
    ELSE 0

\* Lines 921-953: the contents page is put into the spine when no itemref
\* names it: after crt, else after tp, else after cover, else first.
EnsureContentInSpine(s) ==
    IF \E i \in 1..Len(s) : s[i] = "content" THEN s
    ELSE IF AfterFirst(s, "crt") # 0 THEN InsertAt(s, AfterFirst(s, "crt"), "content")
    ELSE IF AfterFirst(s, "tp") # 0 THEN InsertAt(s, AfterFirst(s, "tp"), "content")
    ELSE IF AfterFirst(s, "cover") # 0 THEN InsertAt(s, AfterFirst(s, "cover"), "content")
    ELSE InsertAt(s, 0, "content")

CreateContentOpf(t, jpgs) ==
    [manifest_items |-> FixedManifestItems(t) \o ImageManifestItems(jpgs)
                           \o PageManifestItems(t),
     spine_items |-> EnsureContentInSpine(PageSpineItems(t))]

InitOpf ==
    /\ MainIdle
    /\ PageIdle
    /\ arg \in [toc : OpfTocs(MaxOpfToc), jpgs : SUBSET {"a.jpg"}]
    /\ res = "idle"
    /\ res2 = "idle"
    /\ fpc = "call"

CallCreateContentOpf ==
    /\ fpc = "call"
    /\ res' = CreateContentOpf(arg.toc, arg.jpgs)
    /\ fpc' = "called"
    /\ UNCHANGED <<arg, res2, mainVars, pageVars>>

NextOpf == CallCreateContentOpf

SpecOpf == InitOpf /\ [][NextOpf]_vars

(***************************************************************************)
(* Pages of every type whose sentences hold one or two paragraphs.         *)
(***************************************************************************)
MaxOrderSentences == 2

OrderFragments ==
    {FragP, CrtStyled, CrtSpecial, FragAuthor, FragImg, FragTwo, FragSpace, FragEmpty}

InitOrder ==
    /\ MainIdle
    /\ FnIdle
    /\ pg_id \in ComposerPageIds
    /\ pg_number \in {NoPageNum, 1}
    /\ custom_css_exists = FALSE
    /\ cover_source_name = NoCover
    /\ sentences \in UNION {[1..n -> OrderFragments] : n \in 0..MaxOrderSentences}
    /\ idx = 0
    /\ element_counter = 0
    /\ html_parts = <<>>
    /\ passes_run = <<>>
    /\ ppc = "start"

SpecOrder == InitOrder /\ [][NextPage]_vars

(***************************************************************************)
(* Claims about the head section of the copyright page.                    *)
(***************************************************************************)
\* The lines from <head> to </head>.
C22_HeadLines ==
    LET from == CHOOSE i \in 1..Len(html_parts) : html_parts[i] = <<Open("head", <<>>)>>
        to == CHOOSE i \in 1..Len(html_parts) : html_parts[i] = <<Close("head")>>
    IN SubSeq(html_parts, from, to)

\* The number the restructurer puts in the ids.
C22_PageNum == IF pg_number # NoPageNum THEN pg_number ELSE 3

\* C22 as stated: when the copyright page is restructured, the lines of
\* the head section stay as they were and carry no id, and the headings,
\* paragraphs, containers and lists of the body are all re-identified: the
\* n-th of them carries page_<N>_<n>.
C22_HeadUntouchedBodyReidentified ==
    [][(ppc = "sentences" /\ ppc' = "restructured" /\ pg_id \in CopyrightPageIds) =>
          /\ C22_HeadLines' = C22_HeadLines
          /\ \A i \in 1..Len(C22_HeadLines') : \A x \in 1..Len(C22_HeadLines'[i]) :
                ~HasAttr(C22_HeadLines'[i][x].attrs, "id")
          /\ \A n \in 1..Len(C17_Numbered') :
                IdOf(C17_Numbered'[n]) = <<PageElementId(C22_PageNum, n)>>]_vars

(***************************************************************************)
(* Claims about the pages the restructurer applies to.                     *)
(***************************************************************************)
\* The restructurer was called for the page.
C23_Invoked == \E k \in 1..Len(passes_run) : passes_run[k] = "convert_copyright_structure"

\* C23: for a page id that is neither crt nor starts with copyright,
\* convert_copyright_structure returns the document it is given, and
\* generate_html_page has called it, once the sentences are done, on
\* exactly the pages whose section it typed frontmatter copyright.
C23_OnlyCopyrightPages ==
    /\ (ppc \in {"sentences", "restructured", "done"}
            /\ pg_id # "crt" /\ pg_id \notin {"copyright2"})
          => ConvertCopyrightStructure(JoinLines(html_parts), pg_id, pg_number)
                = JoinLines(html_parts)
    /\ ppc \in {"restructured", "done"}
          => (C23_Invoked <=>
                AttrValue(C11_Section.attrs, "epub:type") = <<"frontmatter copyright">>)
    /\ ppc \in {"start", "sentences"} => ~C23_Invoked

\* A finished copyright page that was restructured (its nonindent1
\* paragraph is an h1) and a section typed frontmatter copyright.
C23_Witness ==
    /\ ppc = "done"
    /\ pg_id = "copyright2"
    /\ sentences = <<FragHeading>>
    /\ C23_Invoked
    /\ AttrValue(C11_Section.attrs, "epub:type") = <<"frontmatter copyright">>
    /\ \E i \in 1..Len(PageElements) : PageElements[i].tag = "h1"

\* A finished chapter page with the same sentence: not restructured, the
\* paragraph is still a paragraph.
C23_WitnessOther ==
    /\ ppc = "done"
    /\ pg_id = "c1"
    /\ sentences = <<FragHeading>>
    /\ ~C23_Invoked
    /\ \A i \in 1..Len(PageElements) : PageElements[i].tag # "h1"

(***************************************************************************)
(* Claims about the order of the sentences in the document.                *)
(***************************************************************************)
\* The content of a sequence of tokens: its texts and its void elements,
\* in order, without their attributes.
C24_Content(toks) ==
    LET c == SelectSeq(toks, LAMBDA t : t.k \in {"text", "void"})
    IN [i \in 1..Len(c) |-> <<c[i].k, c[i].tag, c[i].txt>>]

\* C24 as stated: in the finished document of a page of any type, the
\* lines between the start of the page (shell, page-break marker, cover
\* heading) and the closing lines hold the content of the sentences in
\* the order of the sentence list, each piece once.
C24_SentenceOrderPreserved ==
    ppc = "done" =>
        C24_Content(Flatten(C12_SentenceLines)) = C24_Content(Flatten(sentences))

(***************************************************************************)
(* Claims about tags of other shapes in the tag stripper.                  *)
(***************************************************************************)
\* The tag has none of the shapes clean_html_tags rewrites: it is not an
\* opening z tag with the one attribute class s or w, not a closing z tag,
\* and none of its attributes is href="<book prefix>...htm".
C25_Unrecognized(t) ==
    /\ t.k \in {"open", "close", "void"}
    /\ ~(t.k = "close" /\ t.tag = "z")
    /\ ~(t.k = "open" /\ t.tag = "z" /\ Len(t.attrs) = 1 /\ t.attrs[1][1] = "class"
          /\ t.attrs[1][2] \in {<<"s">>, <<"w">>})
    /\ \A a \in 1..Len(t.attrs) :
          ~(t.attrs[a][1] = "href" /\ t.attrs[a][3] = "dd" /\ t.attrs[a][2][1] = BookPrefix
            /\ t.attrs[a][2][Len(t.attrs[a][2])] = ".htm")

\* The result of clean_html_tags holds nothing but the tokens of the
\* argument, in order: out[n] stems from inp[at[n]].
C25_Origin(inp, out) ==
    {at \in [1..Len(out) -> 1..Len(inp)] :
        /\ \A n \in 1..(Len(out) - 1) : at[n] < at[n + 1]
        /\ \A i \in 1..Len(inp) :
              C25_Unrecognized(inp[i]) \/ inp[i].k = "text" => \E n \in 1..Len(out) : at[n] = i}

\* C25: every call of clean_html_tags and of extract_text_from_html
\* returns a value, and every tag of the fragment that has none of the
\* recognized shapes is in the result of clean_html_tags exactly as it
\* was, at its place among the tokens that are kept.
C25_OtherShapesPassThrough ==
    /\ fpc \in {"called", "recalled"} =>
          /\ Len(res.html) <= Len(arg.html)
          /\ \E at \in C25_Origin(arg.html, res.html) :
                \A n \in 1..Len(res.html) :
                    C25_Unrecognized(arg.html[at[n]]) => res.html[n] = arg.html[at[n]]
    /\ fpc = "recalled" => Len(res2.html) >= 1

\* A fragment with a z tag of class x around a word and a link without the
\* book prefix: both tags are in the result as they were; the closing z
\* tag, which has a recognized shape, is removed.
C25_Witness ==
    /\ fpc = "called"
    /\ arg.html = <<Open("z", <<Attr("class", "x")>>), Close("z"),
                    Open("a", <<<<"href", <<"c1", ".htm">>, "dd">>>>)>>
    /\ res.html = <<Open("z", <<Attr("class", "x")>>),
                    Open("a", <<<<"href", <<"c1", ".htm">>, "dd">>>>)>>

(***************************************************************************)
(* Claims about the cover image.                                           *)
(***************************************************************************)
\* The place of a name in the alphabetical order of the names.
C26_Rank(name) == CHOOSE i \in 1..Len(SortedNames) : SortedNames[i] = name

\* The alphabetically first name of a non-empty set.
C26_First(names) == CHOOSE n \in names : \A o \in names : C26_Rank(n) <= C26_Rank(o)

C26_CoverLike == {n \in res.copied_files : n \in {"Cover2.PNG", "cover.jpg", "cvr.jpg"}}

C26_Jpgs == {n \in res.copied_files : n \in {"a.jpg", "cover.jpg", "cvr.jpg", "tp.jpg"}}

C26_ExplicitName ==
    CASE arg.cover_src = "media/cvr.jpg" -> "cvr.jpg"
      [] arg.cover_src = "media/gone.jpg" -> "gone.jpg"
      [] arg.cover_src = "a.jpg" -> "a.jpg"
      [] OTHER -> ""

\* C26: the cover source is (1) the file the CoverImage entry names when
\* it is in the media folder, else (2) the alphabetically first copied
\* image with cvr or cover in its name, else (3) the copied tp.jpg, else
\* (4) the alphabetically first copied .jpg; when there is none of them
\* the call returns with a warning and without a cover.jpg.
C26_CoverDiscoveryOrder ==
    fpc = "called" =>
        /\ res.cover_source_path =
              IF C26_ExplicitName \in arg.media THEN <<"media", C26_ExplicitName>>
              ELSE IF C26_CoverLike # {} THEN <<"images", C26_First(C26_CoverLike)>>
              ELSE IF "tp.jpg" \in res.copied_files THEN <<"images", "tp.jpg">>
              ELSE IF C26_Jpgs # {} THEN <<"images", C26_First(C26_Jpgs)>>
              ELSE NoSource
        /\ res.warning <=> res.cover_source_path = NoSource
        /\ res.cover_source_path = NoSource => "cover.jpg" \notin DOMAIN res.images
        /\ res.cover_source_path # NoSource => "cover.jpg" \in DOMAIN res.images

\* The CoverImage entry names a file that is not there, no copied image
\* looks like a cover, and tp.jpg is taken although a.jpg comes first.
C26_Witness ==
    /\ fpc = "called"
    /\ arg = [media |-> {"a.jpg", "tp.jpg", "z.jpeg", "notes.css"}, cover_src |-> "media/gone.jpg"]
    /\ res.cover_source_path = <<"images", "tp.jpg">>
    /\ res.images["cover.jpg"] = <<"images", "tp.jpg">>

\* Nothing to take: a warning and no cover.jpg.
C26_WitnessNone ==
    /\ fpc = "called"
    /\ arg = [media |-> {"z.jpeg", "notes.css"}, cover_src |-> NoCoverSrc]
    /\ res.warning
    /\ DOMAIN res.images = {"z.jpeg"}

(***************************************************************************)
(* Claims about the list-clustering scan.                                  *)
(***************************************************************************)
C27_IsListFrame(line) == line \in {UlOpenLine, UlCloseLine}

\* The lines of the result that stem from input lines.
C27_Kept == SelectSeq(res.result_lines, LAMBDA l : ~C27_IsListFrame(l))

\* The output line is a list item whose content is the input line
\* without the tags of its paragraph.
C27_ItemOf(out, inp) ==
    LET line == Strip(inp)
        item == Strip(out)
    IN /\ Len(line) >= 2 /\ Len(item) >= 2
       /\ IsOpenP(line[1]) /\ line[Len(line)] = Close("p")
       /\ item[1] = Open("li", <<>>) /\ item[Len(item)] = Close("li")
       /\ Strip(SubSeq(item, 2, Len(item) - 1)) = Strip(SubSeq(line, 2, Len(line) - 1))

\* Every input line is in the result once and in order, unchanged or as
\* the content of a list item.
C27_Conserved ==
    /\ Len(C27_Kept) = Len(arg.lines)
    /\ \A n \in 1..Len(arg.lines) :
          C27_Kept[n] = arg.lines[n] \/ C27_ItemOf(C27_Kept[n], arg.lines[n])

\* C27 as stated: the scan ends on every input, its index grows in every
\* iteration, and when it has ended every input line is in the result
\* exactly once, unchanged or as the content of one list item, in the
\* order of the input.
C27_TerminatesAndConservesLines ==
    /\ <>(fpc = "called")
    /\ [][fpc' = "loop" => res'.i > res.i]_vars
    /\ [](fpc = "called" => C27_Conserved)

(***************************************************************************)
(* Claims about the files of the package.                                  *)
(***************************************************************************)
\* The file the package holds under the name.
C28_FileNamed(name) == {f \in xhtml_dir : f.name = name}

\* C28 as stated: no two pages of the TOC are written to the same file
\* name, and from the write of a page document on, through the metadata
\* step and up to the archive, the file of that name is the document the
\* page loop wrote for the page.
C28_PageFilesKept ==
    /\ \A i, j \in 1..Len(written) : i # j => written[i].file # written[j].file
    /\ \A i \in 1..Len(written) :
          \E f \in C28_FileNamed(written[i].file) :
              f.by = "main" /\ f.page_id = written[i].page_id

(***************************************************************************)
(* Claims about the links of the navigation documents.                     *)
(***************************************************************************)
\* The links of toc.xhtml and of content.xhtml, once they are written.
C29_Links ==
    UNION {{f.links[k] : k \in 1..Len(f.links)} :
              f \in {g \in xhtml_dir : g.by \in {"create_nav_xhtml", "create_content_xhtml"}}}

\* C29 as stated: once the navigation documents are written, the fragment
\* of every link to a page of the TOC is the id of the section element of
\* the document that was generated for that page.
C29_AnchorsResolve ==
    \A l \in C29_Links : \A i \in 1..Len(written) :
        written[i].page_id = l.page_id => l.anchor = written[i].section

(***************************************************************************)
(* Claims about the manifest and the spine.                                *)
(***************************************************************************)
\* C30 as stated: every itemref of the spine names the id of a manifest
\* item, no two manifest items have the same id, and exactly one itemref
\* names the contents page, whatever entries the TOC has.
C30_ManifestSpineConsistent ==
    fpc = "called" =>
        LET items == res.manifest_items
            spine == res.spine_items
        IN /\ \A k \in 1..Len(spine) : \E i \in 1..Len(items) : items[i].id = spine[k]
           /\ \A i, j \in 1..Len(items) : i # j => items[i].id # items[j].id
           /\ Cardinality({k \in 1..Len(spine) : spine[k] = "content"}) = 1

====
